---- MODULE Spec2Model ----
(***************************************************************************)
(* Model of kamusis/mcp-client: the MCPServerManager of src/mcp-server.ts  *)
(* (connectToServers, closeConnections and its four maps) and the OpenAI   *)
(* orchestrator of src/unnamed/part_000 (OpenAIClient.processOpenAI).      *)
(*                                                                         *)
(* Every await of the code is a step boundary: the environment (a          *)
(* transport connect, a listTools call, a transport close, a model call,   *)
(* a tool call) answers in the action that follows the await.              *)
(***************************************************************************)
EXTENDS Integers, Sequences, FiniteSets, TLC

(***************************************************************************)
(* Bounds of the model.                                                    *)
(***************************************************************************)
\* the most server entries a configuration file holds
MaxServers == 2
\* the most tools one listTools answer holds
MaxTools == 2
\* the most calls of connectToServers / closeConnections made on one manager
MaxCalls == 3
\* the most calls of connectToServers among them
MaxConnects == 1

(***************************************************************************)
(* Program constants.                                                      *)
(***************************************************************************)
\* mcp-server.ts:215  const maxRetries = 5
maxRetries == 5
\* mcp-server.ts:216  const initialDelayMs = 1000
initialDelayMs == 1000

(***************************************************************************)
(* Inputs: server ids, tool names, configuration files.                    *)
(* Ids and names may contain the separator "_" themselves.                 *)
(***************************************************************************)
ServerIds == {"a", "a_b"}
ToolNames == {"echo", "b_echo"}

\* sequences over S without repetition, of length 0..n
InjSeqs(S, n) ==
  {s \in UNION {[1..k -> S] : k \in 0..n} :
     \A p, q \in 1..Len(s) : p # q => s[p] # s[q]}

\* a tool as a server's listTools reports it
ServerTool(n) == [name |-> n, description |-> "desc", inputSchema |-> "schema"]

\* the answers listTools may give: up to MaxTools tools with distinct names
ToolLists ==
  {[k \in 1..Len(s) |-> ServerTool(s[k])] : s \in InjSeqs(ToolNames, MaxTools)}

\* the servers that may be configured as uvx servers
UvxServerIds == {"a"}

\* one entry of mcpServers whose value is an object: command "" stands for an
\* absent command, argsMentionUvx for args that hold the text "uvx",
\* argsBreakDetection for an args array with an element that is not a string
\* (1, null), on which arg.includes of determineServerType throws
ServerEntries ==
  {e \in [id : ServerIds, command : {"", "node"}, argsIsArray : BOOLEAN,
          argsMentionUvx : BOOLEAN, argsBreakDetection : BOOLEAN,
          isNull : {FALSE}] :
     /\ e.command = "" => e.argsIsArray
     /\ e.argsMentionUvx => (e.command # "" /\ e.argsIsArray /\ e.id \in UvxServerIds)
     /\ e.argsBreakDetection =>
          (e.command # "" /\ e.argsIsArray /\ ~e.argsMentionUvx)}

\* an entry of mcpServers whose value is the JSON null: it has no fields
NullEntries ==
  {[id |-> s, command |-> "", argsIsArray |-> FALSE, argsMentionUvx |-> FALSE,
    argsBreakDetection |-> FALSE, isNull |-> TRUE] :
     s \in ServerIds}

\* the mcpServers object: entries in key order, keys unique
ServerLists ==
  {sl \in UNION {[1..k -> ServerEntries] : k \in 0..MaxServers} :
     \A p, q \in 1..Len(sl) : p # q => sl[p].id # sl[q].id}

\* the configuration file as loadMCPConfig finds it
ConfigFiles ==
  {[kind |-> "ok", servers |-> sl] : sl \in ServerLists}
  \cup {[kind |-> k, servers |-> <<>>] : k \in {"missing", "unparseable", "noMcpServers"}}

\* the message of a model response that is yet to come
NoResponse == [content |-> [kind |-> "null"], tool_calls |-> <<>>]

\* what transport.close() may do: resolve, or reject with an Error
CloseOutcomes == {"ok", "EPIPE", "EOTHER"}

(***************************************************************************)
(* State.                                                                  *)
(***************************************************************************)
VARIABLES
  configFile,      \* the file loadMCPConfig reads
  mcpClients,      \* Map serverId -> Client                (mcp-server.ts:12)
  mcpTransports,   \* Map serverId -> transport, in insertion order      (:13)
  tools,           \* the combined catalog                               (:14)
  toolServerMap,   \* Map identifier -> {serverId, originalName}         (:15)
  pc,              \* where the manager's current call stands
  idx,             \* position of the for loop of the current call
  retryCount,      \* connectToServers: let retryCount                  (:217)
  connectedServers,\* connectToServers: let connectedServers            (:116)
  calls,           \* the calls completed so far, with how each ended
  serverState,     \* per server, its state in the current connect call
                   \* (ConnectFailed: its try block ended in the catch)
  listCalls,       \* per server, listTools calls made in the current call
  waits,           \* per server, the backoff delays waited in the current call
  produced,        \* per catalog entry, the (serverId, tool name) it came from
  startedEmpty,    \* whether the maps were empty when the connect call began
  closeLog         \* the close() calls of the current closeConnections call

VARIABLES
  qpc,             \* where the orchestrator's processQuery stands
  messages,        \* the working conversation (openaiMessages)
  sentTools,       \* the tools array built by processQuery  (part_000:31-38)
  finalText,       \* const finalText: string[]
  toolCalls,       \* msg.tool_calls of the response being handled
  callIdx,         \* position of the for loop over msg.tool_calls
  modelCalls,      \* calls made to the model backend in this query
  requested,       \* tool requests the model has made in this query
  lastResponse,    \* the last message the model answered
  invocations,     \* the callTool calls issued in this query, in order
  turnLog,         \* per tool turn appended in this query: its request, its
                   \* kind, its place in the conversation
  queryResult,     \* what processQuery returned
  modelLog,        \* per model call of this query: the conversation and tools sent
  failedRequests,  \* the requests whose callTool threw or had no client
  modelFailures    \* the model calls of this query that rejected

VARIABLES
  llm,             \* the LLM constant: "OPENAI" or "ANTHROPIC"    (types.ts:46)
  chatHistory,     \* MCPClient.chatHistory                     (part_000:242)
  query,           \* the query being processed
  asked,           \* the queries submitted to processQuery so far
  completed        \* the (query, response) pairs of the queries that completed

sessVars == <<llm, chatHistory, query, asked, completed>>

VARIABLES
  mainPc,          \* where main and chatLoop stand        (part_000:352-456)
  exitCode,        \* the code the process exited with, NotExited before
  cleanupCalls,    \* the calls main has made to cleanup
  sessionLog       \* what main and chatLoop have reported, in order

procVars == <<mainPc, exitCode, cleanupCalls, sessionLog>>

VARIABLES
  platform,        \* process.platform
  serverConfig,    \* the entry whose transport is being created: its command
                   \* and args, as sequences of characters
  command          \* connectToServers: let command          (mcp-server.ts:132)

launchVars == <<platform, serverConfig, command>>

VARIABLES
  visiting,        \* the Map entry a for...of loop of index.ts has been given
                   \* and is awaiting on: [serverId, transport] of line 736 or
                   \* [serverId, mcpClient] of line 699
  connectedClients \* chatLoop: let connectedClients           (index.ts:698)

indexVars == <<visiting, connectedClients>>

qVars ==
  <<qpc, messages, sentTools, finalText, toolCalls, callIdx, modelCalls,
    requested, lastResponse, invocations, turnLog, queryResult, modelLog,
    failedRequests, modelFailures, sessVars, procVars>>

mgrVars ==
  <<configFile, mcpClients, mcpTransports, tools, toolServerMap, pc, idx,
    retryCount, connectedServers, calls, serverState, listCalls, waits,
    produced, startedEmpty, closeLog, launchVars, indexVars>>

vars == <<mgrVars, qVars>>

(***************************************************************************)
(* Maps.                                                                   *)
(***************************************************************************)
EmptyMap == [x \in {} |-> x]

\* Map.set
MapSet(m, k, v) == [x \in DOMAIN m \cup {k} |-> IF x = k THEN v ELSE m[x]]

\* Map.set on a Map whose iteration order matters: an existing key keeps its place
OrderedMapSet(m, k, v) ==
  IF \E p \in 1..Len(m) : m[p].key = k
  THEN [p \in 1..Len(m) |-> IF m[p].key = k THEN [key |-> k, value |-> v] ELSE m[p]]
  ELSE Append(m, [key |-> k, value |-> v])

OrderedKeys(m) == {m[p].key : p \in 1..Len(m)}

(***************************************************************************)
(* Pure parts of MCPServerManager.                                         *)
(***************************************************************************)
\* loadMCPConfig: throws for a missing file, a file that does not parse and a
\* file without an mcpServers object; otherwise returns the configuration
loadMCPConfig(file) ==
  IF file.kind = "ok"
  THEN [threw |-> FALSE, mcpServers |-> file.servers]
  ELSE [threw |-> TRUE, mcpServers |-> <<>>]

\* the validation of one entry: !serverConfig.command || !Array.isArray(args)
EntryValid(e) == e.command # "" /\ e.argsIsArray

\* determineServerType(...).isUvx of an entry: command === 'uvx' ||
\* commandString.includes('uvx')
EntryIsUvx(e) == e.command = "uvx" \/ e.argsMentionUvx

\* const uniqueToolName = `${serverId}_${tool.name}`
UniqueToolName(serverId, name) == serverId \o "_" \o name

\* the catalog entry built for one tool of a server
CatalogEntry(serverId, tool) ==
  [name |-> UniqueToolName(serverId, tool.name),
   description |-> "[" \o serverId \o "] " \o tool.description,
   input_schema |-> tool.inputSchema]

\* toolsResult.tools.map(...): the catalog entries, in the order of the answer
ServerToolsOf(serverId, toolList) ==
  [k \in 1..Len(toolList) |-> CatalogEntry(serverId, toolList[k])]

\* toolsResult.tools.map(...): its toolServerMap.set calls, in the same order
RECURSIVE RegisterTools(_, _, _)
RegisterTools(map, serverId, toolList) ==
  IF toolList = <<>> THEN map
  ELSE RegisterTools(
         MapSet(map, UniqueToolName(serverId, toolList[1].name),
                [serverId |-> serverId, originalName |-> toolList[1].name]),
         serverId, Tail(toolList))

\* const delayMs = initialDelayMs * Math.pow(2, retryCount), retryCount
\* being the number of failed attempts so far
BackoffDelay(failures) == initialDelayMs * 2^failures

\* mutant: the budget is taken as spent one failure early
RetriesExhaustedEarly(failures) == failures >= maxRetries - 1

\* if (retryCount >= maxRetries): the budget is spent, the error is rethrown
RetriesExhausted(failures) == failures >= maxRetries

\* mutant: only EPIPE is swallowed, every other Error is rethrown
CloseErrorRethrownUnlessEpipe(outcome) == outcome # "EPIPE"

\* the catch of closeConnections: every Error is logged, none rethrown
CloseErrorRethrown(outcome) == FALSE

\* what Map.get gives for an absent key
NotFound == [found |-> FALSE]

\* getMCPClient(serverId): this.mcpClients.get(serverId)
getMCPClient(clients, serverId) ==
  IF serverId \in DOMAIN clients
  THEN [found |-> TRUE, client |-> clients[serverId]]
  ELSE NotFound

\* getTools()
getTools == tools

\* the handle of a client or transport created in the current call
NewHandle(serverId) == [serverId |-> serverId, call |-> Len(calls) + 1]

\* the connectToServers calls completed so far
ConnectCalls == Cardinality({k \in 1..Len(calls) : calls[k].op = "connect"})

CurrentEntry == loadMCPConfig(configFile).mcpServers[idx]
CurrentId == CurrentEntry.id

AllUnconnected == [s \in ServerIds |-> "Unconnected"]
ZeroCalls == [s \in ServerIds |-> 0]
NoWaits == [s \in ServerIds |-> <<>>]

\* no transport is being created: the loop has not reached line 132
\* what visiting holds while no loop over a Map is awaiting
NoEntry == [key |-> "", value |-> [serverId |-> "", call |-> 0]]

\* no loop of index.ts is running
NoIteration ==
  /\ visiting = NoEntry
  /\ connectedClients = 0

NoLaunch ==
  /\ platform = "linux"
  /\ serverConfig = [command |-> <<>>, args |-> <<>>]
  /\ command = <<>>

(***************************************************************************)
(* Init: the manager as constructed, before any call.                      *)
(***************************************************************************)
InitManager ==
  /\ mcpClients = EmptyMap
  /\ mcpTransports = <<>>
  /\ tools = <<>>
  /\ toolServerMap = EmptyMap
  /\ pc = "idle"
  /\ idx = 0
  /\ retryCount = 0
  /\ connectedServers = 0
  /\ calls = <<>>
  /\ serverState = AllUnconnected
  /\ listCalls = ZeroCalls
  /\ waits = NoWaits
  /\ produced = <<>>
  /\ startedEmpty = TRUE
  /\ closeLog = <<>>
  /\ NoIteration

\* the exit code of a process that is running
NotExited == -1

\* main is yet to run
InitProcess ==
  /\ mainPc = "start"
  /\ exitCode = NotExited
  /\ cleanupCalls = 0
  /\ sessionLog = <<>>

\* no query is being processed
InitQuery ==
  /\ qpc = "idle"
  /\ messages = <<>>
  /\ sentTools = <<>>
  /\ finalText = <<>>
  /\ toolCalls = <<>>
  /\ callIdx = 0
  /\ modelCalls = 0
  /\ requested = 0
  /\ lastResponse = NoResponse
  /\ invocations = <<>>
  /\ turnLog = <<>>
  /\ queryResult = ""
  /\ modelLog = <<>>
  /\ failedRequests = {}
  /\ modelFailures = 0
  /\ InitProcess

\* the client as constructed: an empty chat history, no query asked
InitSession ==
  /\ chatHistory = <<>>
  /\ query = ""
  /\ asked = 0
  /\ completed = <<>>

Init ==
  /\ configFile \in ConfigFiles
  /\ InitManager
  /\ InitQuery
  /\ InitSession
  /\ llm = "ANTHROPIC"
  /\ NoLaunch

(***************************************************************************)
(* connectToServers.                                                       *)
(***************************************************************************)
\* the call, up to the for loop: loadMCPConfig and the check for zero entries
\* throw out of connectToServers (the outer catch rethrows)
CallConnectToServers ==
  /\ pc = "idle"
  /\ Len(calls) < MaxCalls
  /\ ConnectCalls < MaxConnects
  /\ LET cfg == loadMCPConfig(configFile)
     IN  IF cfg.threw \/ Len(cfg.mcpServers) = 0
         THEN /\ calls' = Append(calls, [op |-> "connect", result |-> "threw"])
              /\ UNCHANGED <<pc, idx, connectedServers, serverState, listCalls,
                             waits, startedEmpty>>
         ELSE /\ pc' = "loop"
              /\ idx' = 1
              /\ connectedServers' = 0
              /\ serverState' = AllUnconnected
              /\ listCalls' = ZeroCalls
              /\ waits' = NoWaits
              /\ startedEmpty' = (/\ mcpClients = EmptyMap
                                  /\ mcpTransports = <<>>
                                  /\ tools = <<>>
                                  /\ toolServerMap = EmptyMap)
              /\ UNCHANGED calls
  /\ UNCHANGED <<configFile, mcpClients, mcpTransports, tools, toolServerMap,
                 retryCount, produced, closeLog>>
  /\ UNCHANGED <<qVars, launchVars, indexVars>>

\* the head of the for loop on an invalid entry: warn and continue
SkipInvalidEntry ==
  /\ pc = "loop"
  /\ idx <= Len(loadMCPConfig(configFile).mcpServers)
  /\ ~CurrentEntry.isNull
  /\ ~EntryValid(CurrentEntry)
  /\ idx' = idx + 1
  /\ UNCHANGED <<configFile, mcpClients, mcpTransports, tools, toolServerMap, pc,
                 retryCount, connectedServers, calls, serverState, listCalls,
                 waits, produced, startedEmpty, closeLog>>
  /\ UNCHANGED <<qVars, launchVars, indexVars>>

\* determineServerType (line 136) throws a TypeError on the entry: inside the
\* per-server try, so the catch of 287-290 logs it and the loop goes on, with
\* no transport created and nothing awaited
DetectionThrows ==
  /\ pc = "loop"
  /\ idx <= Len(loadMCPConfig(configFile).mcpServers)
  /\ EntryValid(CurrentEntry)
  /\ CurrentEntry.argsBreakDetection
  /\ idx' = idx + 1
  /\ serverState' = [serverState EXCEPT ![CurrentId] = "ConnectFailed"]
  /\ UNCHANGED <<configFile, mcpClients, mcpTransports, tools, toolServerMap, pc,
                 retryCount, connectedServers, calls, listCalls, waits, produced,
                 startedEmpty, closeLog>>
  /\ UNCHANGED <<qVars, launchVars, indexVars>>

\* the head of the for loop on a valid entry: the transport is created and
\* the 500 ms timer of line 191 is awaited
StartConnect ==
  /\ pc = "loop"
  /\ idx <= Len(loadMCPConfig(configFile).mcpServers)
  /\ EntryValid(CurrentEntry)
  /\ ~CurrentEntry.argsBreakDetection
  /\ pc' = "launchDelay"
  /\ serverState' = [serverState EXCEPT ![CurrentId] = "Launching"]
  /\ UNCHANGED <<configFile, mcpClients, mcpTransports, tools, toolServerMap, idx,
                 retryCount, connectedServers, calls, listCalls, waits, produced,
                 startedEmpty, closeLog>>
  /\ UNCHANGED <<qVars, launchVars, indexVars>>

\* the timer fires: the client is created and mcpClient.connect(transport)
\* is awaited
LaunchDelayElapsed ==
  /\ pc = "launchDelay"
  /\ pc' = "connecting"
  /\ serverState' = [serverState EXCEPT ![CurrentId] = "Connecting"]
  /\ UNCHANGED <<configFile, mcpClients, mcpTransports, tools, toolServerMap, idx,
                 retryCount, connectedServers, calls, listCalls, waits, produced,
                 startedEmpty, closeLog>>
  /\ UNCHANGED <<qVars, launchVars, indexVars>>

\* mutant: a connect failure escapes the per-server catch and ends the call
ConnectFailsAborts ==
  /\ pc = "connecting"
  /\ pc' = "idle"
  /\ calls' = Append(calls, [op |-> "connect", result |-> "threw"])
  /\ serverState' = [serverState EXCEPT ![CurrentId] = "ConnectFailed"]
  /\ UNCHANGED <<configFile, mcpClients, mcpTransports, tools, toolServerMap, idx,
                 retryCount, connectedServers, listCalls, waits, produced,
                 startedEmpty, closeLog>>
  /\ UNCHANGED <<qVars, launchVars, indexVars>>

\* connect rejects: the per-server catch logs it, the loop continues
ConnectFails ==
  /\ pc = "connecting"
  /\ pc' = "loop"
  /\ idx' = idx + 1
  /\ serverState' = [serverState EXCEPT ![CurrentId] = "ConnectFailed"]
  /\ UNCHANGED <<configFile, mcpClients, mcpTransports, tools, toolServerMap,
                 retryCount, connectedServers, calls, listCalls, waits, produced,
                 startedEmpty, closeLog>>
  /\ UNCHANGED <<qVars, launchVars, indexVars>>

\* what the maps hold once connect has resolved (lines 211-212)
StoreConnection(serverId) ==
  /\ mcpClients' = MapSet(mcpClients, serverId, NewHandle(serverId))
  /\ mcpTransports' = OrderedMapSet(mcpTransports, serverId, NewHandle(serverId))

\* mutant: the loop goes on to the next entry while listTools of this server
\* is still outstanding
ConnectSucceedsMovesOn ==
  /\ pc = "connecting"
  /\ StoreConnection(CurrentId)
  /\ retryCount' = 0
  /\ pc' = "loop"
  /\ idx' = idx + 1
  /\ serverState' = [serverState EXCEPT ![CurrentId] = "Initializing"]
  /\ listCalls' = [listCalls EXCEPT ![CurrentId] = @ + 1]
  /\ UNCHANGED <<configFile, tools, toolServerMap, connectedServers, calls,
                 waits, produced, startedEmpty, closeLog>>
  /\ UNCHANGED <<qVars, launchVars, indexVars>>

\* lines 211-224: client and transport are stored and the first listTools
\* call is awaited
StoreAndListTools ==
  /\ StoreConnection(CurrentId)
  /\ retryCount' = 0
  /\ pc' = "listing"
  /\ serverState' = [serverState EXCEPT ![CurrentId] = "Initializing"]
  /\ listCalls' = [listCalls EXCEPT ![CurrentId] = @ + 1]

\* connect resolves: for a uvx server the initialization timer of lines
\* 204-208 is awaited first, with nothing stored yet
ConnectSucceeds ==
  /\ pc = "connecting"
  /\ IF EntryIsUvx(CurrentEntry)
     THEN /\ pc' = "uvxDelay"
          /\ serverState' = [serverState EXCEPT ![CurrentId] = "Connected"]
          /\ UNCHANGED <<mcpClients, mcpTransports, retryCount, listCalls>>
     ELSE StoreAndListTools
  /\ UNCHANGED <<configFile, tools, toolServerMap, idx, connectedServers, calls,
                 waits, produced, startedEmpty, closeLog>>
  /\ UNCHANGED <<qVars, launchVars, indexVars>>

\* the initialization timer of a uvx server fires
UvxDelayElapsed ==
  /\ pc = "uvxDelay"
  /\ StoreAndListTools
  /\ UNCHANGED <<configFile, tools, toolServerMap, idx, connectedServers, calls,
                 waits, produced, startedEmpty, closeLog>>
  /\ UNCHANGED <<qVars, launchVars, indexVars>>

\* mutant: the per-server catch deletes the client and the transport of a
\* server whose catalog could not be retrieved
AfterRetriesExhaustedDropsConnection(serverId) ==
  /\ mcpClients' = [x \in DOMAIN mcpClients \ {serverId} |-> mcpClients[x]]
  /\ mcpTransports' = SelectSeq(mcpTransports, LAMBDA e : e.key # serverId)

\* what follows the last failed attempt: `throw error` reaches the per-server
\* catch, which logs and goes on to the next server
AfterRetriesExhausted(serverId) ==
  /\ UNCHANGED <<mcpClients, mcpTransports>>

\* the messages listTools may reject with: the initialization race, or other
ListToolsErrors ==
  {"Received request before initialization was complete", "Request timed out"}

\* lines 240-248: the delay is computed before the message is looked at, and
\* the two branches on the message differ in the warning they log only
DelayAfter(errorMessage, failures) ==
  IF errorMessage = "Received request before initialization was complete"
  THEN BackoffDelay(failures)
  ELSE BackoffDelay(failures)

\* listTools rejects, with whatever message
ListToolsFails ==
  /\ pc = "listing"
  /\ retryCount' = retryCount + 1
  /\ IF RetriesExhausted(retryCount')
     THEN /\ AfterRetriesExhausted(CurrentId)
          /\ pc' = "loop"
          /\ idx' = idx + 1
          /\ serverState' = [serverState EXCEPT ![CurrentId] = "Exhausted"]
          /\ UNCHANGED waits
     ELSE /\ pc' = "backoff"
          /\ \E errorMessage \in ListToolsErrors :
               waits' = [waits EXCEPT ![CurrentId] =
                           Append(@, DelayAfter(errorMessage, retryCount'))]
          /\ UNCHANGED <<mcpClients, mcpTransports, idx, serverState>>
  /\ UNCHANGED <<configFile, tools, toolServerMap, connectedServers, calls,
                 listCalls, produced, startedEmpty, closeLog>>
  /\ UNCHANGED <<qVars, launchVars, indexVars>>

\* the backoff timer fires: while (retryCount < maxRetries) calls listTools
\* again; were the loop to end without a result, line 257 throws to the
\* per-server catch
BackoffElapsed ==
  /\ pc = "backoff"
  /\ IF retryCount < maxRetries
     THEN /\ pc' = "listing"
          /\ listCalls' = [listCalls EXCEPT ![CurrentId] = @ + 1]
          /\ UNCHANGED <<idx, serverState>>
     ELSE /\ pc' = "loop"
          /\ idx' = idx + 1
          /\ serverState' = [serverState EXCEPT ![CurrentId] = "Exhausted"]
          /\ UNCHANGED listCalls
  /\ UNCHANGED <<configFile, mcpClients, mcpTransports, tools, toolServerMap,
                 retryCount, connectedServers, calls, waits, produced,
                 startedEmpty, closeLog>>
  /\ UNCHANGED <<qVars, launchVars, indexVars>>

\* mutant: after the answer listTools is called once more
ListToolsSucceedsCallsAgain ==
  /\ pc = "listing"
  /\ \E toolList \in ToolLists :
       /\ toolServerMap' = RegisterTools(toolServerMap, CurrentId, toolList)
       /\ tools' = tools \o ServerToolsOf(CurrentId, toolList)
       /\ produced' = produced \o
            [k \in 1..Len(toolList) |->
               [serverId |-> CurrentId, originalName |-> toolList[k].name]]
  /\ connectedServers' = connectedServers + 1
  /\ pc' = "loop"
  /\ idx' = idx + 1
  /\ serverState' = [serverState EXCEPT ![CurrentId] = "Ready"]
  /\ listCalls' = [listCalls EXCEPT ![CurrentId] = @ + 1]
  /\ UNCHANGED <<configFile, mcpClients, mcpTransports, retryCount, calls,
                 waits, startedEmpty, closeLog>>
  /\ UNCHANGED <<qVars, launchVars, indexVars>>

\* listTools resolves with a tool list: its tools are registered (lines 260-286)
ListToolsSucceeds ==
  /\ pc = "listing"
  /\ \E toolList \in ToolLists :
       /\ toolServerMap' = RegisterTools(toolServerMap, CurrentId, toolList)
       /\ tools' = tools \o ServerToolsOf(CurrentId, toolList)
       /\ produced' = produced \o
            [k \in 1..Len(toolList) |->
               [serverId |-> CurrentId, originalName |-> toolList[k].name]]
  /\ connectedServers' = connectedServers + 1
  /\ pc' = "loop"
  /\ idx' = idx + 1
  /\ serverState' = [serverState EXCEPT ![CurrentId] = "Ready"]
  /\ UNCHANGED <<configFile, mcpClients, mcpTransports, retryCount, calls,
                 listCalls, waits, startedEmpty, closeLog>>
  /\ UNCHANGED <<qVars, launchVars, indexVars>>

\* the for loop is over: connectToServers returns
ConnectReturns ==
  /\ pc = "loop"
  /\ idx > Len(loadMCPConfig(configFile).mcpServers)
  /\ pc' = "idle"
  /\ calls' = Append(calls, [op |-> "connect", result |-> "returned"])
  /\ UNCHANGED <<configFile, mcpClients, mcpTransports, tools, toolServerMap, idx,
                 retryCount, connectedServers, serverState, listCalls, waits,
                 produced, startedEmpty, closeLog>>
  /\ UNCHANGED <<qVars, launchVars, indexVars>>

(***************************************************************************)
(* closeConnections.                                                       *)
(***************************************************************************)
\* the call: the for loop over mcpTransports.entries() begins
CallCloseConnections ==
  /\ pc = "idle"
  /\ Len(calls) < MaxCalls
  /\ pc' = "closing"
  /\ idx' = 1
  /\ closeLog' = <<>>
  /\ UNCHANGED <<configFile, mcpClients, mcpTransports, tools, toolServerMap,
                 retryCount, connectedServers, calls, serverState, listCalls,
                 waits, produced, startedEmpty>>
  /\ UNCHANGED <<qVars, launchVars, indexVars>>

\* transport.close() of the next stored transport resolves or rejects
CloseTransport ==
  /\ pc = "closing"
  /\ idx <= Len(mcpTransports)
  /\ \E outcome \in CloseOutcomes :
       /\ closeLog' = Append(closeLog, [transport |-> mcpTransports[idx].value,
                                        outcome |-> outcome])
       /\ IF outcome # "ok" /\ CloseErrorRethrown(outcome)
          THEN /\ pc' = "idle"
               /\ calls' = Append(calls, [op |-> "close", result |-> "threw"])
               /\ UNCHANGED idx
          ELSE /\ idx' = idx + 1
               /\ UNCHANGED <<pc, calls>>
  /\ UNCHANGED <<configFile, mcpClients, mcpTransports, tools, toolServerMap,
                 retryCount, connectedServers, serverState, listCalls, waits,
                 produced, startedEmpty>>
  /\ UNCHANGED <<qVars, launchVars, indexVars>>

\* every transport has been tried: the 100 ms delay is awaited
CloseLoopEnds ==
  /\ pc = "closing"
  /\ idx > Len(mcpTransports)
  /\ pc' = "closeDelay"
  /\ UNCHANGED <<configFile, mcpClients, mcpTransports, tools, toolServerMap, idx,
                 retryCount, connectedServers, calls, serverState, listCalls,
                 waits, produced, startedEmpty, closeLog>>
  /\ UNCHANGED <<qVars, launchVars, indexVars>>

\* mutant: toolServerMap.clear() is missing
ClearMapsKeepsNamespace ==
  /\ mcpClients' = EmptyMap
  /\ mcpTransports' = <<>>
  /\ toolServerMap' = toolServerMap
  /\ tools' = <<>>

\* mutant: mcpTransports.clear() is missing
ClearMapsKeepsTransports ==
  /\ mcpClients' = EmptyMap
  /\ mcpTransports' = mcpTransports
  /\ toolServerMap' = EmptyMap
  /\ tools' = <<>>

\* lines 327-330: the four maps are cleared
ClearMaps ==
  /\ mcpClients' = EmptyMap
  /\ mcpTransports' = <<>>
  /\ toolServerMap' = EmptyMap
  /\ tools' = <<>>

\* the delay is over: the maps are cleared and closeConnections returns
CloseReturns ==
  /\ pc = "closeDelay"
  /\ ClearMaps
  /\ produced' = [k \in 1..Len(tools') |-> produced[k]]
  /\ pc' = "idle"
  /\ calls' = Append(calls, [op |-> "close", result |-> "returned"])
  /\ UNCHANGED <<configFile, idx, retryCount, connectedServers, serverState,
                 listCalls, waits, startedEmpty, closeLog>>
  /\ UNCHANGED <<qVars, launchVars, indexVars>>

(***************************************************************************)
(* The manager under any sequence of calls, one call at a time.            *)
(***************************************************************************)
Next ==
  \/ CallConnectToServers
  \/ SkipInvalidEntry
  \/ DetectionThrows
  \/ StartConnect
  \/ LaunchDelayElapsed
  \/ ConnectFails
  \/ ConnectSucceeds
  \/ UvxDelayElapsed
  \/ ListToolsFails
  \/ BackoffElapsed
  \/ ListToolsSucceeds
  \/ ConnectReturns
  \/ CallCloseConnections
  \/ CloseTransport
  \/ CloseLoopEnds
  \/ CloseReturns

Spec == Init /\ [][Next]_vars

(***************************************************************************)
(* connectToServers on a configuration whose mcpServers may hold the value *)
(* null for a server id.  JSON.parse accepts it and loadMCPConfig checks   *)
(* only that mcpServers is an object.                                      *)
(***************************************************************************)
\* the mcpServers object with null among its values
ServerListsWithNull ==
  {sl \in UNION {[1..k -> ServerEntries \cup NullEntries] : k \in 0..MaxServers} :
     \A p, q \in 1..Len(sl) : p # q => sl[p].id # sl[q].id}

ConfigFilesWithNull ==
  {[kind |-> "ok", servers |-> sl] : sl \in ServerListsWithNull}
  \cup {[kind |-> k, servers |-> <<>>] : k \in {"missing", "unparseable", "noMcpServers"}}

\* the head of the for loop on a null entry: serverConfig.command (line 123)
\* throws a TypeError outside the per-server try; the outer catch (298-301)
\* logs it and rethrows
NullEntryThrows ==
  /\ pc = "loop"
  /\ idx <= Len(loadMCPConfig(configFile).mcpServers)
  /\ CurrentEntry.isNull
  /\ pc' = "idle"
  /\ calls' = Append(calls, [op |-> "connect", result |-> "threw"])
  /\ UNCHANGED <<configFile, mcpClients, mcpTransports, tools, toolServerMap, idx,
                 retryCount, connectedServers, serverState, listCalls, waits,
                 produced, startedEmpty, closeLog>>
  /\ UNCHANGED <<qVars, launchVars, indexVars>>

InitConfig ==
  /\ configFile \in ConfigFilesWithNull
  /\ InitManager
  /\ InitQuery
  /\ InitSession
  /\ llm = "ANTHROPIC"
  /\ NoLaunch

NextConfig ==
  \/ Next
  \/ NullEntryThrows

SpecConfig == InitConfig /\ [][NextConfig]_vars

(***************************************************************************)
(* OpenAIClient (src/unnamed/part_000, lines 1-198): processQuery and the  *)
(* recursive processOpenAI.  The model backend and the tool servers are    *)
(* the environment.                                                        *)
(***************************************************************************)
\* the most calls one query makes to the model backend
MaxModelCalls == 3
\* the most tool requests the model makes in one query
MaxRequests == 2

\* the user's query
Query == "say hi"

\* tool names the model may ask for: a catalog identifier, a server id, and a
\* name nobody registered
RequestNames == {"a_echo", "a", "nope"}

\* toolCall.function.arguments as the model sends it: JSON, not JSON, empty
ArgStrings == {"{ \"text\": \"hi\" }", "oops", ""}

\* JSON.stringify(JSON.parse(raw)) for the JSON texts among ArgStrings
JsonRoundTrip == ("{ \"text\": \"hi\" }" :> "{\"text\":\"hi\"}")

\* lines 100-107: toolArgs, held as the text JSON.stringify(toolArgs) gives;
\* an empty string and a text that does not parse both give {}
ParseArguments(raw) ==
  IF raw = "" THEN "{}"
  ELSE IF raw \in DOMAIN JsonRoundTrip THEN JsonRoundTrip[raw]
  ELSE "{}"

\* message contents: a string, null, or an array of content blocks
StringContent(t) == [kind |-> "string", text |-> t]
NullContent == [kind |-> "null"]
ArrayContent(blocks) == [kind |-> "array", blocks |-> blocks]

TextBlock(t) == [type |-> "text", text |-> t]
ImageBlock == [type |-> "image", data |-> "png"]

\* what callTool may resolve with (result.content)
ToolContents ==
  {StringContent("hi"),
   ArrayContent(<<TextBlock("hi")>>),
   ArrayContent(<<TextBlock("hi"), ImageBlock>>),
   ArrayContent(<<ImageBlock, TextBlock("hi")>>)}

\* the messages callTool may reject with
ToolErrors == {"Connection closed", "boom"}

\* Array.prototype.join
RECURSIVE Join(_, _)
Join(strings, sep) ==
  IF strings = <<>> THEN ""
  ELSE IF Len(strings) = 1 THEN strings[1]
  ELSE strings[1] \o sep \o Join(Tail(strings), sep)

\* c.text of a content block: undefined (joined as the empty string) when the
\* block has no text
BlockText(b) == IF "text" \in DOMAIN b THEN b.text ELSE ""

\* lines 137-140: an array whose first block is text is flattened to text,
\* anything else is passed on as it is
FlattenContent(c) ==
  IF c.kind = "array" /\ Len(c.blocks) > 0 /\ c.blocks[1].type = "text"
  THEN StringContent(Join([k \in 1..Len(c.blocks) |-> BlockText(c.blocks[k])], "\n"))
  ELSE c

\* lines 111-121: the namespace lookup, with serverId 'default' and the
\* identifier itself as the tool name when there is no entry
ResolveTool(map, toolName) ==
  IF toolName \in DOMAIN map
  THEN map[toolName]
  ELSE [serverId |-> "default", originalName |-> toolName]

\* lines 31-38: the catalog in the shape the OpenAI API takes
OpenAITools(catalog) ==
  [k \in 1..Len(catalog) |->
     [type |-> "function",
      function |-> [name |-> catalog[k].name,
                    description |-> catalog[k].description,
                    parameters |-> catalog[k].input_schema]]]

\* line 143
CallingToolLine(toolName, args) ==
  "[Calling tool " \o toolName \o " with args " \o args \o "]"

\* line 156
ErrorCallingToolLine(toolName, errorMessage) ==
  "[Error calling tool " \o toolName \o ": " \o errorMessage \o "]"

\* lines 145-149
ToolMessage(toolCall, content) ==
  [role |-> "tool", tool_call_id |-> toolCall.id, content |-> content]

\* an error turn that does not carry the id of its request
ToolErrorMessageUncorrelated(toolCall, errorMessage) ==
  [role |-> "tool", tool_call_id |-> 0,
   content |-> StringContent("Error: " \o errorMessage \o
     ". The tool call failed, please try a different approach or continue without this tool.")]

\* lines 158-162
ToolErrorMessage(toolCall, errorMessage) ==
  [role |-> "tool", tool_call_id |-> toolCall.id,
   content |-> StringContent("Error: " \o errorMessage \o
     ". The tool call failed, please try a different approach or continue without this tool.")]

\* line 127
NoClientMessage(serverId) == "No MCP client found for server ID: " \o serverId

\* lines 81-84 and 190-191: what processOpenAI returns
ReturnValue(texts) == Join(texts, "\n")

\* what a model call is sent: the conversation, and the tools when the call
\* passes any
ModelRequest(msgs, toolList) == [messages |-> msgs, withTools |-> TRUE, tools |-> toolList]
ModelRequestWithoutTools(msgs) == [messages |-> msgs, withTools |-> FALSE, tools |-> <<>>]

\* the tool requests a model response may carry: n requests, numbered on
\* from those already made in this query
ToolRequests(n) ==
  {[k \in 1..n |-> [id |-> requested + k, name |-> names[k], arguments |-> args[k]]] :
     names \in [1..n -> RequestNames], args \in [1..n -> ArgStrings]}

CurrentCall == toolCalls[callIdx]
CurrentTarget == ResolveTool(toolServerMap, CurrentCall.name)

\* processQuery(query): the conversation is seeded with the query alone and
\* the first model call is awaited
CallProcessQuery ==
  /\ qpc = "idle"
  /\ pc = "idle"
  /\ llm = "OPENAI"
  /\ query' = Query
  /\ asked' = asked + 1
  /\ messages' = <<[role |-> "user", content |-> StringContent(Query)]>>
  /\ sentTools' = OpenAITools(getTools)
  /\ finalText' = <<>>
  /\ qpc' = "model"
  /\ modelCalls' = 1
  /\ modelLog' = <<ModelRequest(messages', sentTools')>>
  /\ UNCHANGED <<toolCalls, callIdx, requested, lastResponse, invocations,
                 queryResult>>
  /\ UNCHANGED <<turnLog, failedRequests, modelFailures, llm, chatHistory, completed, mgrVars, procVars>>

\* chat.completions.create rejects and the query is kept in the chat history
ModelCallFailsKeepsQuery ==
  /\ qpc = "model"
  /\ qpc' = "threw"
  /\ modelFailures' = modelFailures + 1
  /\ chatHistory' = Append(chatHistory, [role |-> "user", content |-> query])
  /\ UNCHANGED <<messages, sentTools, finalText, toolCalls, callIdx, modelCalls,
                 requested, lastResponse, invocations, queryResult>>
  /\ UNCHANGED <<turnLog, modelLog, failedRequests, llm, query, asked, completed, mgrVars, procVars>>

\* chat.completions.create rejects: the error is rethrown up to the caller
ModelCallFails ==
  /\ qpc = "model"
  /\ qpc' = "threw"
  /\ modelFailures' = modelFailures + 1
  /\ UNCHANGED <<messages, sentTools, finalText, toolCalls, callIdx, modelCalls,
                 requested, lastResponse, invocations, queryResult>>
  /\ UNCHANGED <<turnLog, modelLog, failedRequests, sessVars, mgrVars, procVars>>

\* the model answers with text and no tool requests (lines 80-85)
ModelAnswersText ==
  /\ qpc = "model"
  /\ lastResponse' = [content |-> StringContent("hi"), tool_calls |-> <<>>]
  /\ finalText' = Append(finalText, lastResponse'.content.text)
  /\ queryResult' = ReturnValue(finalText')
  /\ qpc' = "returned"
  /\ UNCHANGED <<messages, sentTools, toolCalls, callIdx, modelCalls, requested,
                 invocations>>
  /\ UNCHANGED <<turnLog, modelLog, failedRequests, modelFailures, sessVars, mgrVars, procVars>>

\* the model answers with neither content nor tool requests (lines 181-191)
ModelAnswersNothing ==
  /\ qpc = "model"
  /\ lastResponse' = [content |-> NullContent, tool_calls |-> <<>>]
  /\ queryResult' = ReturnValue(finalText)
  /\ qpc' = "returned"
  /\ UNCHANGED <<messages, sentTools, finalText, toolCalls, callIdx, modelCalls,
                 requested, invocations>>
  /\ UNCHANGED <<turnLog, modelLog, failedRequests, modelFailures, sessVars, mgrVars, procVars>>

\* the model answers with tool requests: the assistant turn is appended and
\* the for loop over msg.tool_calls begins (lines 88-98)
ModelRequestsTools ==
  /\ qpc = "model"
  /\ modelCalls < MaxModelCalls
  /\ \E n \in 1..(MaxRequests - requested) : \E requests \in ToolRequests(n) :
       /\ lastResponse' = [content |-> NullContent, tool_calls |-> requests]
       /\ messages' = Append(messages, [role |-> "assistant",
                                        content |-> NullContent,
                                        tool_calls |-> requests])
       /\ toolCalls' = requests
       /\ requested' = requested + n
  /\ callIdx' = 1
  /\ qpc' = "dispatch"
  /\ UNCHANGED <<sentTools, finalText, modelCalls, invocations, queryResult>>
  /\ UNCHANGED <<turnLog, modelLog, failedRequests, modelFailures, sessVars, mgrVars, procVars>>

\* the catch of lines 151-166: an error line and an error turn for this request
AppendToolError(errorMessage) ==
  /\ finalText' = Append(finalText, ErrorCallingToolLine(CurrentCall.name, errorMessage))
  /\ messages' = Append(messages, ToolErrorMessage(CurrentCall, errorMessage))
  /\ turnLog' = Append(turnLog, [request |-> CurrentCall.id, kind |-> "error", at |-> Len(messages')])

\* the request is sent to its server and the for loop goes on without
\* awaiting callTool
DispatchToolCallNoAwait ==
  /\ qpc = "dispatch"
  /\ callIdx <= Len(toolCalls)
  /\ invocations' = Append(invocations,
       [serverId |-> CurrentTarget.serverId,
        name |-> CurrentTarget.originalName,
        arguments |-> ParseArguments(CurrentCall.arguments),
        request |-> CurrentCall.id])
  /\ callIdx' = callIdx + 1
  /\ UNCHANGED <<qpc, messages, finalText, turnLog, failedRequests>>
  /\ UNCHANGED <<sentTools, toolCalls, modelCalls, requested, lastResponse,
                 queryResult>>
  /\ UNCHANGED <<modelLog, modelFailures, sessVars, mgrVars, procVars>>

\* the next request of the for loop, up to the await of callTool; without a
\* client for the server the error turn is appended at once
DispatchToolCall ==
  /\ qpc = "dispatch"
  /\ callIdx <= Len(toolCalls)
  /\ IF getMCPClient(mcpClients, CurrentTarget.serverId).found
     THEN /\ invocations' = Append(invocations,
               [serverId |-> CurrentTarget.serverId,
                name |-> CurrentTarget.originalName,
                arguments |-> ParseArguments(CurrentCall.arguments),
                request |-> CurrentCall.id])
          /\ qpc' = "tool"
          /\ UNCHANGED <<messages, finalText, callIdx, turnLog, failedRequests>>
     ELSE /\ AppendToolError(NoClientMessage(CurrentTarget.serverId))
          /\ callIdx' = callIdx + 1
          /\ failedRequests' = failedRequests \cup {CurrentCall.id}
          /\ UNCHANGED <<qpc, invocations>>
  /\ UNCHANGED <<sentTools, toolCalls, modelCalls, requested, lastResponse,
                 queryResult>>
  /\ UNCHANGED <<modelLog, modelFailures, sessVars, mgrVars, procVars>>

\* callTool resolves (lines 136-150)
ToolCallSucceeds ==
  /\ qpc = "tool"
  /\ \E content \in ToolContents :
       messages' = Append(messages, ToolMessage(CurrentCall, FlattenContent(content)))
  /\ finalText' = Append(finalText,
       CallingToolLine(CurrentCall.name, ParseArguments(CurrentCall.arguments)))
  /\ turnLog' = Append(turnLog, [request |-> CurrentCall.id, kind |-> "result", at |-> Len(messages')])
  /\ callIdx' = callIdx + 1
  /\ qpc' = "dispatch"
  /\ UNCHANGED <<sentTools, toolCalls, modelCalls, requested, lastResponse,
                 invocations, queryResult>>
  /\ UNCHANGED <<modelLog, failedRequests, modelFailures, sessVars, mgrVars, procVars>>

\* callTool rejects (lines 151-166)
ToolCallFails ==
  /\ qpc = "tool"
  /\ \E errorMessage \in ToolErrors : AppendToolError(errorMessage)
  /\ callIdx' = callIdx + 1
  /\ failedRequests' = failedRequests \cup {CurrentCall.id}
  /\ qpc' = "dispatch"
  /\ UNCHANGED <<sentTools, toolCalls, modelCalls, requested, lastResponse,
                 invocations, queryResult>>
  /\ UNCHANGED <<modelLog, modelFailures, sessVars, mgrVars, procVars>>

\* the recursion stops after two model calls and returns what there is
ResubmitCapped ==
  /\ qpc = "dispatch"
  /\ callIdx > Len(toolCalls)
  /\ IF modelCalls >= 2
     THEN /\ queryResult' = ReturnValue(finalText)
          /\ qpc' = "returned"
          /\ UNCHANGED <<modelCalls, modelLog>>
     ELSE /\ qpc' = "model"
          /\ modelCalls' = modelCalls + 1
          /\ modelLog' = Append(modelLog, ModelRequest(messages, sentTools))
          /\ UNCHANGED queryResult
  /\ UNCHANGED <<messages, sentTools, finalText, toolCalls, callIdx, requested,
                 lastResponse, invocations>>
  /\ UNCHANGED <<turnLog, failedRequests, modelFailures, sessVars, mgrVars, procVars>>

\* every request of the response has its turn: processOpenAI calls itself and
\* the next model call is awaited (lines 169-171)
Resubmit ==
  /\ qpc = "dispatch"
  /\ callIdx > Len(toolCalls)
  /\ qpc' = "model"
  /\ modelCalls' = modelCalls + 1
  /\ modelLog' = Append(modelLog, ModelRequest(messages, sentTools))
  /\ UNCHANGED <<messages, sentTools, finalText, toolCalls, callIdx, requested,
                 lastResponse, invocations, queryResult>>
  /\ UNCHANGED <<turnLog, failedRequests, modelFailures, sessVars, mgrVars, procVars>>

NextOpenAI ==
  \/ CallProcessQuery
  \/ ModelCallFails
  \/ ModelAnswersText
  \/ ModelAnswersNothing
  \/ ModelRequestsTools
  \/ DispatchToolCall
  \/ ToolCallSucceeds
  \/ ToolCallFails
  \/ Resubmit

(***************************************************************************)
(* The manager a query runs against: as connectToServers leaves it when    *)
(* every configured server connected and listed its tools at once.  Each   *)
(* of these states is a state of Spec, reached by CallConnectToServers,    *)
(* StartConnect, ConnectSucceeds, ListToolsSucceeds and ConnectReturns.    *)
(***************************************************************************)
\* the configurations the queries run against, each server with its tool list
QueryServers ==
  {<<[id |-> "a", toolList |-> tl]>> : tl \in ToolLists}
  \cup {<<[id |-> "a", toolList |-> <<ServerTool("echo")>>],
          [id |-> "a_b", toolList |-> <<ServerTool("echo")>>]>>}

RECURSIVE RegisterAll(_, _)
RegisterAll(map, servers) ==
  IF servers = <<>> THEN map
  ELSE RegisterAll(RegisterTools(map, servers[1].id, servers[1].toolList), Tail(servers))

RECURSIVE CatalogOfAll(_)
CatalogOfAll(servers) ==
  IF servers = <<>> THEN <<>>
  ELSE ServerToolsOf(servers[1].id, servers[1].toolList) \o CatalogOfAll(Tail(servers))

RECURSIVE ProducedByAll(_)
ProducedByAll(servers) ==
  IF servers = <<>> THEN <<>>
  ELSE [k \in 1..Len(servers[1].toolList) |->
          [serverId |-> servers[1].id, originalName |-> servers[1].toolList[k].name]]
       \o ProducedByAll(Tail(servers))

\* the state connectToServers returns in for these servers
ManagerConnectedTo(servers) ==
  LET ids == {servers[k].id : k \in 1..Len(servers)}
      handle(sid) == [serverId |-> sid, call |-> 1]
  IN  /\ configFile = [kind |-> "ok",
                       servers |-> [k \in 1..Len(servers) |->
                                      [id |-> servers[k].id, command |-> "node",
                                       argsIsArray |-> TRUE, argsMentionUvx |-> FALSE,
                                       argsBreakDetection |-> FALSE,
                                       isNull |-> FALSE]]]
      /\ mcpClients = [sid \in ids |-> handle(sid)]
      /\ mcpTransports = [k \in 1..Len(servers) |->
                            [key |-> servers[k].id, value |-> handle(servers[k].id)]]
      /\ tools = CatalogOfAll(servers)
      /\ toolServerMap = RegisterAll(EmptyMap, servers)
      /\ pc = "idle"
      /\ idx = Len(servers) + 1
      /\ retryCount = 0
      /\ connectedServers = Len(servers)
      /\ calls = <<[op |-> "connect", result |-> "returned"]>>
      /\ serverState = [s \in ServerIds |-> IF s \in ids THEN "Ready" ELSE "Unconnected"]
      /\ listCalls = [s \in ServerIds |-> IF s \in ids THEN 1 ELSE 0]
      /\ waits = NoWaits
      /\ produced = ProducedByAll(servers)
      /\ startedEmpty = TRUE
      /\ closeLog = <<>>
      /\ NoIteration

InitOpenAI ==
  /\ \E servers \in QueryServers : ManagerConnectedTo(servers)
  /\ InitQuery
  /\ InitSession
  /\ llm = "OPENAI"
  /\ NoLaunch

SpecOpenAI == InitOpenAI /\ [][NextOpenAI]_vars

(***************************************************************************)
(* AnthropicClient.processQuery.  The steps are its awaits: the first      *)
(* model call, callTool, the follow-up model call after a result and the   *)
(* follow-up model call after an error.  toolCalls holds response.content  *)
(* and callIdx the position of the for loop in it.                         *)
(***************************************************************************)
\* content.input of a tool_use block, held as the text JSON.stringify gives
ToolInputs == {"{\"text\":\"hi\"}"}

ToolUseBlock(id, name, input) ==
  [type |-> "tool_use", id |-> id, name |-> name, input |-> input]

\* the tool_use blocks a response may carry, numbered from 1
ToolUseBlocks(n) ==
  {[k \in 1..n |-> ToolUseBlock(k, names[k], inputs[k])] :
     names \in [1..n -> RequestNames], inputs \in [1..n -> ToolInputs]}

\* response.content of the first model call: text or not, then tool requests
FirstResponses ==
  UNION {{lead \o uses : uses \in ToolUseBlocks(n)} :
           lead \in {<<>>, <<TextBlock("hi")>>}, n \in 0..MaxRequests}

\* followUpResponse.content: text first, a tool request first, or nothing
FollowUpResponses ==
  {<<TextBlock("hi")>>, <<ToolUseBlock(0, "a_echo", "{}")>>, <<>>}

\* the messages messages.create may reject with
ModelErrors == {"overloaded"}

\* JSON.stringify of a content block
StringifyBlock(b) ==
  IF b.type = "text"
  THEN "{\"type\":\"text\",\"text\":\"" \o b.text \o "\"}"
  ELSE "{\"type\":\"image\",\"data\":\"" \o b.data \o "\"}"

\* JSON.stringify(result.content)
StringifyContent(c) ==
  IF c.kind = "string" THEN "\"" \o c.text \o "\""
  ELSE IF c.kind = "null" THEN "null"
  ELSE "[" \o Join([k \in 1..Len(c.blocks) |-> StringifyBlock(c.blocks[k])], ",") \o "]"

\* mutant: the result turn is appended under the assistant role
ToolResultAssistantMessage(toolName, content) ==
  [role |-> "assistant",
   content |-> StringContent("Tool result for " \o toolName \o ": " \o StringifyContent(content))]

\* lines 86-89
ToolResultUserMessage(toolName, content) ==
  [role |-> "user",
   content |-> StringContent("Tool result for " \o toolName \o ": " \o StringifyContent(content))]

\* lines 123-126
ErrorUserMessage(toolName, errorMessage) ==
  [role |-> "user",
   content |-> StringContent("Error when calling tool " \o toolName \o ": " \o errorMessage \o
     ". Please try a different approach or continue without this tool.")]

\* the block the for loop is at, and where its name resolves to (lines 52-67)
CurrentBlock == toolCalls[callIdx]
CurrentUseTarget == ResolveTool(toolServerMap, CurrentBlock.name)

\* processQuery(query) up to the await of the first model call (lines 24-42)
AnthropicProcessQuery ==
  /\ qpc = "idle"
  /\ pc = "idle"
  /\ llm = "ANTHROPIC"
  /\ query' = Query
  /\ asked' = asked + 1
  /\ messages' = <<[role |-> "user", content |-> StringContent(Query)]>>
  /\ sentTools' = getTools
  /\ finalText' = <<>>
  /\ qpc' = "first"
  /\ modelCalls' = 1
  /\ modelLog' = <<ModelRequest(messages', sentTools')>>
  /\ UNCHANGED <<toolCalls, callIdx, requested, lastResponse, invocations,
                 queryResult, turnLog, failedRequests, modelFailures>>
  /\ UNCHANGED <<llm, chatHistory, completed, mgrVars, procVars>>

\* the first messages.create rejects: nothing catches it (lines 37-42)
FirstCallFails ==
  /\ qpc = "first"
  /\ qpc' = "threw"
  /\ modelFailures' = modelFailures + 1
  /\ UNCHANGED <<messages, sentTools, finalText, toolCalls, callIdx, modelCalls,
                 requested, lastResponse, invocations, turnLog, queryResult,
                 modelLog, failedRequests, sessVars, mgrVars, procVars>>

\* the first messages.create resolves: the for loop over its content begins
FirstCallAnswers ==
  /\ qpc = "first"
  /\ \E blocks \in FirstResponses :
       /\ toolCalls' = blocks
       /\ requested' = Cardinality({k \in 1..Len(blocks) : blocks[k].type = "tool_use"})
  /\ callIdx' = 1
  /\ qpc' = "content"
  /\ UNCHANGED <<messages, sentTools, finalText, modelCalls, lastResponse,
                 invocations, turnLog, queryResult, modelLog, failedRequests,
                 modelFailures, sessVars, mgrVars, procVars>>

\* a text block (lines 48-50)
TextContent ==
  /\ qpc = "content"
  /\ callIdx <= Len(toolCalls)
  /\ CurrentBlock.type = "text"
  /\ finalText' = Append(finalText, CurrentBlock.text)
  /\ callIdx' = callIdx + 1
  /\ UNCHANGED <<qpc, messages, sentTools, toolCalls, modelCalls, requested,
                 lastResponse, invocations, turnLog, queryResult, modelLog,
                 failedRequests, modelFailures, sessVars, mgrVars, procVars>>

\* the catch of lines 103-135, up to the await of the follow-up after the
\* error: an error line, an error turn, and a model call without tools
CatchToolError(errorMessage) ==
  /\ finalText' = Append(finalText, ErrorCallingToolLine(CurrentBlock.name, errorMessage))
  /\ messages' = Append(messages, ErrorUserMessage(CurrentBlock.name, errorMessage))
  /\ turnLog' = Append(turnLog, [request |-> CurrentBlock.id, kind |-> "error", at |-> Len(messages')])
  /\ modelCalls' = modelCalls + 1
  /\ modelLog' = Append(modelLog, ModelRequestWithoutTools(messages'))
  /\ qpc' = "errorFollowUp"

\* a tool_use block, up to the await of callTool; without a client for the
\* server the throw of line 73 is caught at once (lines 51-80)
DispatchToolUse ==
  /\ qpc = "content"
  /\ callIdx <= Len(toolCalls)
  /\ CurrentBlock.type = "tool_use"
  /\ IF getMCPClient(mcpClients, CurrentUseTarget.serverId).found
     THEN /\ invocations' = Append(invocations,
               [serverId |-> CurrentUseTarget.serverId,
                name |-> CurrentUseTarget.originalName,
                arguments |-> CurrentBlock.input,
                request |-> CurrentBlock.id])
          /\ qpc' = "atool"
          /\ UNCHANGED <<messages, finalText, turnLog, modelCalls, modelLog,
                         failedRequests>>
     ELSE /\ CatchToolError(NoClientMessage(CurrentUseTarget.serverId))
          /\ failedRequests' = failedRequests \cup {CurrentBlock.id}
          /\ UNCHANGED invocations
  /\ UNCHANGED <<sentTools, toolCalls, callIdx, requested, lastResponse,
                 queryResult, modelFailures, sessVars, mgrVars, procVars>>

\* callTool resolves and the result turn is kept for a later model call
ToolUseSucceedsBatched ==
  /\ qpc = "atool"
  /\ \E content \in ToolContents :
       messages' = Append(messages, ToolResultUserMessage(CurrentBlock.name, content))
  /\ finalText' = Append(finalText, CallingToolLine(CurrentBlock.name, CurrentBlock.input))
  /\ turnLog' = Append(turnLog, [request |-> CurrentBlock.id, kind |-> "result", at |-> Len(messages')])
  /\ callIdx' = callIdx + 1
  /\ qpc' = "content"
  /\ UNCHANGED <<sentTools, toolCalls, modelCalls, modelLog, requested, lastResponse,
                 invocations, queryResult, failedRequests, modelFailures,
                 sessVars, mgrVars, procVars>>

\* callTool resolves: the call line, the result turn, and the follow-up model
\* call without tools is awaited (lines 82-97)
ToolUseSucceeds ==
  /\ qpc = "atool"
  /\ \E content \in ToolContents :
       messages' = Append(messages, ToolResultUserMessage(CurrentBlock.name, content))
  /\ finalText' = Append(finalText, CallingToolLine(CurrentBlock.name, CurrentBlock.input))
  /\ turnLog' = Append(turnLog, [request |-> CurrentBlock.id, kind |-> "result", at |-> Len(messages')])
  /\ modelCalls' = modelCalls + 1
  /\ modelLog' = Append(modelLog, ModelRequestWithoutTools(messages'))
  /\ qpc' = "followUp"
  /\ UNCHANGED <<sentTools, toolCalls, callIdx, requested, lastResponse,
                 invocations, queryResult, failedRequests, modelFailures,
                 sessVars, mgrVars, procVars>>

\* callTool rejects and the rejection leaves processQuery
ToolUseFailsRaises ==
  /\ qpc = "atool"
  /\ failedRequests' = failedRequests \cup {CurrentBlock.id}
  /\ qpc' = "threw"
  /\ UNCHANGED <<messages, finalText, turnLog, modelCalls, modelLog>>
  /\ UNCHANGED <<sentTools, toolCalls, callIdx, requested, lastResponse,
                 invocations, queryResult, modelFailures, sessVars, mgrVars, procVars>>

\* callTool rejects: the catch (lines 103-135)
ToolUseFails ==
  /\ qpc = "atool"
  /\ \E errorMessage \in ToolErrors : CatchToolError(errorMessage)
  /\ failedRequests' = failedRequests \cup {CurrentBlock.id}
  /\ UNCHANGED <<sentTools, toolCalls, callIdx, requested, lastResponse,
                 invocations, queryResult, modelFailures, sessVars, mgrVars, procVars>>

\* lines 100-102 and 138-140: the text of a follow-up whose first block is text
FollowUpText(texts, response) ==
  IF Len(response) > 0 /\ response[1].type = "text"
  THEN Append(texts, response[1].text)
  ELSE texts

\* mutant: a tool request in the follow-up response is sent to its server
FollowUpAnswersDispatches ==
  /\ qpc = "followUp"
  /\ \E response \in FollowUpResponses :
       /\ finalText' = FollowUpText(finalText, response)
       /\ invocations' =
            IF Len(response) > 0 /\ response[1].type = "tool_use"
            THEN Append(invocations,
                   [serverId |-> ResolveTool(toolServerMap, response[1].name).serverId,
                    name |-> ResolveTool(toolServerMap, response[1].name).originalName,
                    arguments |-> response[1].input,
                    request |-> response[1].id])
            ELSE invocations
  /\ callIdx' = callIdx + 1
  /\ qpc' = "content"
  /\ UNCHANGED <<messages, sentTools, toolCalls, modelCalls, requested,
                 lastResponse, turnLog, queryResult, modelLog,
                 failedRequests, modelFailures, sessVars, mgrVars, procVars>>

\* the follow-up model call resolves (lines 99-102): on to the next block
FollowUpAnswers ==
  /\ qpc = "followUp"
  /\ \E response \in FollowUpResponses : finalText' = FollowUpText(finalText, response)
  /\ callIdx' = callIdx + 1
  /\ qpc' = "content"
  /\ UNCHANGED <<messages, sentTools, toolCalls, modelCalls, requested,
                 lastResponse, invocations, turnLog, queryResult, modelLog,
                 failedRequests, modelFailures, sessVars, mgrVars, procVars>>

\* the follow-up model call rejects inside the try of line 69: the catch of
\* line 103 takes it as it takes a tool failure
FollowUpFails ==
  /\ qpc = "followUp"
  /\ \E errorMessage \in ModelErrors : CatchToolError(errorMessage)
  /\ modelFailures' = modelFailures + 1
  /\ UNCHANGED <<sentTools, toolCalls, callIdx, requested, lastResponse,
                 invocations, queryResult, failedRequests, sessVars, mgrVars, procVars>>

\* the follow-up after an error resolves (lines 137-140)
ErrorFollowUpAnswers ==
  /\ qpc = "errorFollowUp"
  /\ \E response \in FollowUpResponses : finalText' = FollowUpText(finalText, response)
  /\ callIdx' = callIdx + 1
  /\ qpc' = "content"
  /\ UNCHANGED <<messages, sentTools, toolCalls, modelCalls, requested,
                 lastResponse, invocations, turnLog, queryResult, modelLog,
                 failedRequests, modelFailures, sessVars, mgrVars, procVars>>

\* the follow-up after an error rejects: logged and dropped (lines 141-143)
ErrorFollowUpFails ==
  /\ qpc = "errorFollowUp"
  /\ modelFailures' = modelFailures + 1
  /\ callIdx' = callIdx + 1
  /\ qpc' = "content"
  /\ UNCHANGED <<messages, sentTools, finalText, toolCalls, modelCalls, requested,
                 lastResponse, invocations, turnLog, queryResult, modelLog,
                 failedRequests, sessVars, mgrVars, procVars>>

\* the for loop is over: finalText.join("\n") is returned (line 149)
AnthropicReturns ==
  /\ qpc = "content"
  /\ callIdx > Len(toolCalls)
  /\ queryResult' = Join(finalText, "\n")
  /\ qpc' = "returned"
  /\ UNCHANGED <<messages, sentTools, finalText, toolCalls, callIdx, modelCalls,
                 requested, lastResponse, invocations, turnLog, modelLog,
                 failedRequests, modelFailures, sessVars, mgrVars, procVars>>

NextAnthropic ==
  \/ AnthropicProcessQuery
  \/ FirstCallFails
  \/ FirstCallAnswers
  \/ TextContent
  \/ DispatchToolUse
  \/ ToolUseSucceeds
  \/ ToolUseFails
  \/ FollowUpAnswers
  \/ FollowUpFails
  \/ ErrorFollowUpAnswers
  \/ ErrorFollowUpFails
  \/ AnthropicReturns

InitAnthropic ==
  /\ \E servers \in QueryServers : ManagerConnectedTo(servers)
  /\ InitQuery
  /\ InitSession
  /\ llm = "ANTHROPIC"
  /\ NoLaunch

SpecAnthropic == InitAnthropic /\ [][NextAnthropic]_vars

(***************************************************************************)
(* MCPClient.processQuery once the client's processQuery has returned:     *)
(* addToChatHistory and the while loop of pruneHistory, one step per push  *)
(* and per iteration.                                                      *)
(***************************************************************************)
MAX_CHAT_TURNS == 30

\* Array.prototype.splice(0, n)
SpliceFront(h, n) == SubSeq(h, n + 1, Len(h))

\* lines 326-335: the index (from 0) of the first user entry after the first
\* entry, -1 when there is none
SecondUserMsgIndex(h) ==
  IF \E i \in 2..Len(h) : h[i].role = "user"
  THEN (CHOOSE i \in 2..Len(h) :
          /\ h[i].role = "user"
          /\ \A j \in 2..(i - 1) : h[j].role # "user") - 1
  ELSE -1

\* a while loop that starts pruning one pair late
OverLimitLate(h) == Len(h) > MAX_CHAT_TURNS * 2 + 2

\* line 323: the condition of the while loop
OverLimit(h) == Len(h) > MAX_CHAT_TURNS * 2

\* an iteration that removes the entries up to the third user entry
PruneTwoOldest(h) == SpliceFront(h, SecondUserMsgIndex(h) + 2)

\* an iteration whose splice removes nothing
PruneKeepsAll(h) == SpliceFront(h, 0)

\* lines 337-339: what an iteration of the while loop removes
PruneOldest(h) == SpliceFront(h, SecondUserMsgIndex(h))

\* processQuery returns the response to its caller
QueryCompleted ==
  /\ qpc' = "prompt"
  /\ completed' = Append(completed, [query |-> query, response |-> queryResult])

\* line 295
AddUserTurn ==
  /\ qpc = "returned"
  /\ chatHistory' = Append(chatHistory, [role |-> "user", content |-> query])
  /\ qpc' = "addedUser"
  /\ UNCHANGED <<messages, sentTools, finalText, toolCalls, callIdx, modelCalls,
                 requested, lastResponse, invocations, turnLog, queryResult,
                 modelLog, failedRequests, modelFailures>>
  /\ UNCHANGED <<llm, query, asked, completed, mgrVars, procVars>>

\* line 303
AddAssistantTurn ==
  /\ qpc = "addedUser"
  /\ chatHistory' = Append(chatHistory, [role |-> "assistant", content |-> queryResult])
  /\ qpc' = "prune"
  /\ UNCHANGED <<messages, sentTools, finalText, toolCalls, callIdx, modelCalls,
                 requested, lastResponse, invocations, turnLog, queryResult,
                 modelLog, failedRequests, modelFailures>>
  /\ UNCHANGED <<llm, query, asked, completed, mgrVars, procVars>>

\* an iteration of the while loop of pruneHistory (lines 323-345)
PruneIteration ==
  /\ qpc = "prune"
  /\ OverLimit(chatHistory)
  /\ IF SecondUserMsgIndex(chatHistory) > 0
     THEN /\ chatHistory' = PruneOldest(chatHistory)
          /\ UNCHANGED <<qpc, completed>>
     ELSE /\ QueryCompleted
          /\ UNCHANGED chatHistory
  /\ UNCHANGED <<messages, sentTools, finalText, toolCalls, callIdx, modelCalls,
                 requested, lastResponse, invocations, turnLog, queryResult,
                 modelLog, failedRequests, modelFailures>>
  /\ UNCHANGED <<llm, query, asked, mgrVars, procVars>>

\* the while loop ends and processQuery returns (lines 323, 285)
PruneEnds ==
  /\ qpc = "prune"
  /\ ~OverLimit(chatHistory)
  /\ QueryCompleted
  /\ UNCHANGED <<messages, sentTools, finalText, toolCalls, callIdx, modelCalls,
                 requested, lastResponse, invocations, turnLog, queryResult,
                 modelLog, failedRequests, modelFailures>>
  /\ UNCHANGED <<llm, chatHistory, query, asked, mgrVars, procVars>>

(***************************************************************************)
(* A query from MCPClient.processQuery to the return of the client's       *)
(* processQuery, under either backend, with or without an earlier query in *)
(* the chat history.                                                       *)
(***************************************************************************)
\* the chat history and its record when the query is asked: nothing, or one
\* earlier query and its response
PriorQueries == {<<>>, <<[query |-> "hello", response |-> "hi there"]>>}

\* the chat history addToChatHistory leaves for these queries
RECURSIVE HistoryOf(_)
HistoryOf(pairs) ==
  IF pairs = <<>> THEN <<>>
  ELSE <<[role |-> "user", content |-> pairs[1].query],
         [role |-> "assistant", content |-> pairs[1].response]>>
       \o HistoryOf(Tail(pairs))

InitProcessQuery ==
  /\ \E servers \in QueryServers : ManagerConnectedTo(servers)
  /\ InitQuery
  /\ llm \in {"OPENAI", "ANTHROPIC"}
  /\ \E prior \in PriorQueries :
       /\ completed = prior
       /\ chatHistory = HistoryOf(prior)
       /\ asked = Len(prior)
  /\ query = ""
  /\ NoLaunch

NextProcessQuery ==
  \/ NextOpenAI
  \/ NextAnthropic

SpecProcessQuery == InitProcessQuery /\ [][NextProcessQuery]_vars

(***************************************************************************)
(* The chat history over many queries.  The client's processQuery is the   *)
(* environment here: it resolves with a response or rejects.               *)
(***************************************************************************)
MaxQueries == 32
MaxFailedQueries == 1

\* the text of the k-th query and of the response to it
QueryText(k) == "q" \o ToString(k)
ResponseText(k) == "r" \o ToString(k)

\* the queries that were asked and did not complete
FailedQueries == asked - Len(completed) - (IF qpc = "prompt" THEN 0 ELSE 1)

\* processQuery(query) is called and the client's processQuery is awaited
\* (lines 269-280)
SubmitQuery ==
  /\ qpc = "prompt"
  /\ asked < MaxQueries
  /\ asked' = asked + 1
  /\ query' = QueryText(asked')
  /\ qpc' = "processing"
  /\ UNCHANGED <<messages, sentTools, finalText, toolCalls, callIdx, modelCalls,
                 requested, lastResponse, invocations, turnLog, queryResult,
                 modelLog, failedRequests, modelFailures>>
  /\ UNCHANGED <<llm, chatHistory, completed, mgrVars, procVars>>

\* the client's processQuery resolves with a response
ClientReturns ==
  /\ qpc = "processing"
  /\ queryResult' = ResponseText(asked)
  /\ qpc' = "returned"
  /\ UNCHANGED <<messages, sentTools, finalText, toolCalls, callIdx, modelCalls,
                 requested, lastResponse, invocations, turnLog,
                 modelLog, failedRequests, modelFailures>>
  /\ UNCHANGED <<sessVars, mgrVars, procVars>>

\* the client's processQuery rejects: processQuery rejects before line 283
ClientThrows ==
  /\ qpc = "processing"
  /\ FailedQueries < MaxFailedQueries
  /\ qpc' = "prompt"
  /\ UNCHANGED <<messages, sentTools, finalText, toolCalls, callIdx, modelCalls,
                 requested, lastResponse, invocations, turnLog, queryResult,
                 modelLog, failedRequests, modelFailures>>
  /\ UNCHANGED <<sessVars, mgrVars, procVars>>

InitHistory ==
  /\ ManagerConnectedTo(<<[id |-> "a", toolList |-> <<ServerTool("echo")>>]>>)
  /\ InitSession
  /\ llm = "ANTHROPIC"
  /\ qpc = "prompt"
  /\ messages = <<>>
  /\ sentTools = <<>>
  /\ finalText = <<>>
  /\ toolCalls = <<>>
  /\ callIdx = 0
  /\ modelCalls = 0
  /\ requested = 0
  /\ lastResponse = NoResponse
  /\ invocations = <<>>
  /\ turnLog = <<>>
  /\ queryResult = ""
  /\ modelLog = <<>>
  /\ failedRequests = {}
  /\ modelFailures = 0
  /\ InitProcess
  /\ NoLaunch

NextHistory ==
  \/ SubmitQuery
  \/ ClientReturns
  \/ ClientThrows
  \/ AddUserTurn
  \/ AddAssistantTurn
  \/ PruneIteration
  \/ PruneEnds

SpecHistory == InitHistory /\ [][NextHistory]_vars

(***************************************************************************)
(* A query from MCPClient.processQuery to its own return, under either     *)
(* backend: the client's processQuery, then addToChatHistory and           *)
(* pruneHistory.  The chat history is empty or full when the query is      *)
(* asked.                                                                  *)
(***************************************************************************)
\* the record of MAX_CHAT_TURNS completed queries
FullHistoryPairs ==
  [k \in 1..MAX_CHAT_TURNS |-> [query |-> QueryText(k), response |-> ResponseText(k)]]

InitCompleteQuery ==
  /\ ManagerConnectedTo(<<[id |-> "a", toolList |-> <<ServerTool("echo")>>]>>)
  /\ InitQuery
  /\ llm \in {"OPENAI", "ANTHROPIC"}
  /\ \E prior \in {<<>>, FullHistoryPairs} :
       /\ completed = prior
       /\ chatHistory = HistoryOf(prior)
       /\ asked = Len(prior)
  /\ query = ""
  /\ NoLaunch

NextCompleteQuery ==
  \/ NextOpenAI
  \/ NextAnthropic
  \/ AddUserTurn
  \/ AddAssistantTurn
  \/ PruneIteration
  \/ PruneEnds

SpecCompleteQuery == InitCompleteQuery /\ [][NextCompleteQuery]_vars

(***************************************************************************)
(* main, chatLoop and the uncaughtException handler (part_000:214-224,     *)
(* 352-456).  The manager's calls and the backend of                       *)
(* MCPClient.processQuery are the environment here: each resolves or       *)
(* rejects; a resolved processQuery has added its turn to the chat history.*)
(***************************************************************************)
\* the most events chatLoop reports before the user quits
MaxEvents == 4

\* what the user may type at the prompt
Inputs == {"quit", "EXIT", " quit", "", "  ", "say hi"}

\* String.prototype.toLowerCase on Inputs
ToLowerCase ==
  ("quit" :> "quit" @@ "EXIT" :> "exit" @@ " quit" :> " quit" @@ "" :> "" @@
   "  " :> "  " @@ "say hi" :> "say hi")

\* String.prototype.trim on Inputs
Trim ==
  ("quit" :> "quit" @@ "EXIT" :> "EXIT" @@ " quit" :> "quit" @@ "" :> "" @@
   "  " :> "" @@ "say hi" :> "say hi")

\* line 386: ["quit", "exit"].includes(message.toLowerCase())
IsQuit(message) == ToLowerCase[message] \in {"quit", "exit"}

\* line 391: !message.trim()
IsEmpty(message) == Trim[message] = ""

\* the error codes an uncaught exception may carry
ExceptionCodes == {"EPIPE", "EOTHER"}

\* one more line in what the session has reported
Report(event, text) ==
  sessionLog' = Append(sessionLog, [event |-> event, text |-> text])

\* the manager and the backend client, which main and chatLoop only call
clientVars ==
  <<mgrVars, qpc, messages, sentTools, finalText, toolCalls, callIdx, modelCalls,
    requested, lastResponse, invocations, turnLog, queryResult, modelLog,
    failedRequests, modelFailures>>

\* everything main and chatLoop do not touch themselves
restVars == <<clientVars, sessVars>>

\* what a resolved processQuery may answer
Responses == {"hi", "hello there"}

\* pruneHistory (lines 313-347): the while loop as a whole
RECURSIVE pruneHistory(_)
pruneHistory(h) ==
  IF OverLimit(h) /\ SecondUserMsgIndex(h) > 0
  THEN pruneHistory(PruneOldest(h))
  ELSE h

\* addToChatHistory (lines 293-307) as a whole
addToChatHistory(h, userQuery, response) ==
  pruneHistory(h \o <<[role |-> "user", content |-> userQuery],
                      [role |-> "assistant", content |-> response]>>)

\* main: the client is constructed and connectToServers is awaited (428-432)
MainCallsConnect ==
  /\ mainPc = "start"
  /\ mainPc' = "connect"
  /\ UNCHANGED <<exitCode, cleanupCalls, sessionLog, restVars>>

\* connectToServers resolves: on to chatLoop (line 440)
ConnectToServersResolves ==
  /\ mainPc = "connect"
  /\ mainPc' = "chatLoop"
  /\ UNCHANGED <<exitCode, cleanupCalls, sessionLog, restVars>>

\* connectToServers rejects: logged, and on to chatLoop (lines 433-437)
ConnectToServersRejects ==
  /\ mainPc = "connect"
  /\ Report("connectError", "Error connecting to MCP servers")
  /\ mainPc' = "chatLoop"
  /\ UNCHANGED <<exitCode, cleanupCalls, restVars>>

\* chatLoop: the readline interface is created and the first question is
\* awaited (lines 353-378)
ChatLoopStarts ==
  /\ mainPc = "chatLoop"
  /\ Report("started", "MCP Client Started!")
  /\ mainPc' = "question"
  /\ UNCHANGED <<exitCode, cleanupCalls, restVars>>

\* chatLoop rejects before its try (createInterface throws): main's catch
\* logs it (lines 441-443)
ChatLoopRejects ==
  /\ mainPc = "chatLoop"
  /\ Report("fatal", "Fatal error in main process")
  /\ mainPc' = "loopEnded"
  /\ UNCHANGED <<exitCode, cleanupCalls, restVars>>

\* rl.question rejects: logged, and the question is asked again (379-383)
QuestionRejects ==
  /\ mainPc = "question"
  /\ Len(sessionLog) < MaxEvents
  /\ Report("readError", "Error reading input")
  /\ UNCHANGED <<mainPc, exitCode, cleanupCalls, restVars>>

\* the user enters quit or exit: break, rl.close(), chatLoop returns (386-388,
\* 409-411)
ReadQuit ==
  /\ mainPc = "question"
  /\ \E message \in Inputs :
       /\ IsQuit(message)
       /\ Report("quit", message)
  /\ mainPc' = "loopEnded"
  /\ UNCHANGED <<exitCode, cleanupCalls, restVars>>

\* the user enters nothing: reported, and the question is asked again (391-394)
ReadEmpty ==
  /\ mainPc = "question"
  /\ Len(sessionLog) < MaxEvents
  /\ \E message \in Inputs :
       /\ ~IsQuit(message)
       /\ IsEmpty(message)
       /\ Report("empty", message)
  /\ UNCHANGED <<mainPc, exitCode, cleanupCalls, restVars>>

\* the user enters a query: processQuery is awaited (lines 396-397)
ReadQuery ==
  /\ mainPc = "question"
  /\ Len(sessionLog) < MaxEvents
  /\ \E message \in Inputs :
       /\ ~IsQuit(message)
       /\ ~IsEmpty(message)
       /\ Report("query", message)
       /\ query' = message
  /\ asked' = asked + 1
  /\ mainPc' = "processing"
  /\ UNCHANGED <<exitCode, cleanupCalls, clientVars, llm, chatHistory, completed>>

\* processQuery resolves, the query and the response added to the chat
\* history (part_000:281): the response is printed and the question is asked
\* again (line 398)
ProcessQueryResolves ==
  /\ mainPc = "processing"
  /\ \E response \in Responses :
       /\ Report("response", response)
       /\ chatHistory' = addToChatHistory(chatHistory, query, response)
       /\ completed' = Append(completed, [query |-> query, response |-> response])
  /\ mainPc' = "question"
  /\ UNCHANGED <<exitCode, cleanupCalls, clientVars, llm, query, asked>>

\* processQuery rejects: the error is reported and the question is asked
\* again (lines 399-403)
ProcessQueryRejects ==
  /\ mainPc = "processing"
  /\ Report("error", "Failed to process query")
  /\ mainPc' = "question"
  /\ UNCHANGED <<exitCode, cleanupCalls, restVars>>

\* standard input ends while rl.question is pending (line 378): readline
\* closes, the promise of the question never settles and chatLoop has no
\* 'close' handler, so nothing is left to run and the process exits with
\* status 0; neither finally block runs
InputEnds ==
  /\ mainPc = "question"
  /\ mainPc' = "exited"
  /\ exitCode' = 0
  /\ UNCHANGED <<cleanupCalls, sessionLog, restVars>>

\* a statement of the while loop outside its two inner tries throws (the
\* logger calls of lines 381-382, 392 and 401-402): the outer catch reports
\* it (404-408), the finally closes readline and chatLoop returns
ChatLoopCatchesFatal ==
  /\ mainPc \in {"question", "processing"}
  /\ Report("critical", "Fatal error in chat loop")
  /\ mainPc' = "loopEnded"
  /\ UNCHANGED <<exitCode, cleanupCalls, restVars>>

\* main's finally: cleanup, that is closeConnections, is awaited (444-447)
MainCallsCleanup ==
  /\ mainPc = "loopEnded"
  /\ mainPc' = "cleanup"
  /\ cleanupCalls' = cleanupCalls + 1
  /\ UNCHANGED <<exitCode, sessionLog, restVars>>

\* cleanup is over: process.exit(0) (line 452)
MainExits ==
  /\ mainPc = "cleanup"
  /\ mainPc' = "exited"
  /\ exitCode' = 0
  /\ UNCHANGED <<cleanupCalls, sessionLog, restVars>>

\* an uncaught exception with code EPIPE: the handler returns (215-219)
UncaughtEpipeIgnored ==
  /\ mainPc # "exited"
  /\ Len(sessionLog) < MaxEvents
  /\ Report("ignored", "EPIPE")
  /\ UNCHANGED <<mainPc, exitCode, cleanupCalls, restVars>>

\* any other uncaught exception: the handler logs it and calls
\* process.exit(1) (lines 221-223)
UncaughtExceptionExits ==
  /\ mainPc # "exited"
  /\ \E code \in ExceptionCodes \ {"EPIPE"} : Report("uncaught", code)
  /\ mainPc' = "exited"
  /\ exitCode' = 1
  /\ UNCHANGED <<cleanupCalls, restVars>>

InitMain ==
  /\ configFile = [kind |-> "ok", servers |-> <<>>]
  /\ InitManager
  /\ InitQuery
  /\ InitSession
  /\ llm = "ANTHROPIC"
  /\ NoLaunch

NextMain ==
  \/ MainCallsConnect
  \/ ConnectToServersResolves
  \/ ConnectToServersRejects
  \/ ChatLoopStarts
  \/ ChatLoopRejects
  \/ QuestionRejects
  \/ ReadQuit
  \/ ReadEmpty
  \/ ReadQuery
  \/ ProcessQueryResolves
  \/ ProcessQueryRejects
  \/ InputEnds
  \/ ChatLoopCatchesFatal
  \/ MainCallsCleanup
  \/ MainExits
  \/ UncaughtEpipeIgnored
  \/ UncaughtExceptionExits

SpecMain == InitMain /\ [][NextMain]_vars

(***************************************************************************)
(* Vocabulary of the properties.                                           *)
(***************************************************************************)
Servers == loadMCPConfig(configFile).mcpServers

LastCall == calls[Len(calls)]

\* connectToServers has just returned
ConnectDone ==
  /\ pc = "idle"
  /\ calls # <<>>
  /\ LastCall = [op |-> "connect", result |-> "returned"]

\* closeConnections has just returned or thrown
CloseDone ==
  /\ pc = "idle"
  /\ calls # <<>>
  /\ LastCall.op = "close"

\* the four maps are empty
MapsEmpty ==
  /\ mcpClients = EmptyMap
  /\ mcpTransports = <<>>
  /\ tools = <<>>
  /\ toolServerMap = EmptyMap

\* the server has no entry in the connection map, the transport map, the
\* namespace map or the catalog
NoTraceOf(sid) ==
  /\ ~getMCPClient(mcpClients, sid).found
  /\ sid \notin OrderedKeys(mcpTransports)
  /\ \A id \in DOMAIN toolServerMap : toolServerMap[id].serverId # sid
  /\ \A k \in DOMAIN tools :
       /\ produced[k].serverId # sid
       /\ tools[k].description # "[" \o sid \o "] " \o ServerTool("echo").description

\* the server contributes nothing to the namespace map or the catalog
NoToolOf(sid) ==
  /\ \A id \in DOMAIN toolServerMap : toolServerMap[id].serverId # sid
  /\ \A k \in DOMAIN tools :
       /\ produced[k].serverId # sid
       /\ tools[k].description # "[" \o sid \o "] " \o ServerTool("echo").description

\* every valid entry of the configuration has been tried
EveryValidEntryTried ==
  \A k \in 1..Len(Servers) :
    EntryValid(Servers[k]) => serverState[Servers[k].id] # "Unconnected"

(***************************************************************************)
(* C1. After connectToServers completes on a fresh manager, the catalog    *)
(* holds exactly one entry serverId_localName for every tool of every      *)
(* server that connected and listed its tools, none of a failed server,    *)
(* and toolServerMap resolves each catalog identifier to the (serverId,    *)
(* originalName) pair that produced it.                                    *)
(***************************************************************************)
C1_CatalogIsUnionAndResolves ==
  (ConnectDone /\ startedEmpty) =>
    /\ Len(tools) = Len(produced)
    /\ \A k \in DOMAIN tools :
         /\ serverState[produced[k].serverId] = "Ready"
         /\ tools[k].name =
              UniqueToolName(produced[k].serverId, produced[k].originalName)
         /\ Cardinality({j \in DOMAIN tools : tools[j].name = tools[k].name}) = 1
         /\ tools[k].name \in DOMAIN toolServerMap
         /\ toolServerMap[tools[k].name] = produced[k]

(***************************************************************************)
(* C2. Distinct (serverId, localToolName) pairs registered by              *)
(* connectToServers get distinct identifiers, whatever the ids and names   *)
(* contain: the catalog never holds one identifier for two different       *)
(* pairs.                                                                  *)
(***************************************************************************)
C2_IdentifiersUnique ==
  \A i, j \in DOMAIN tools :
    produced[i] # produced[j] => tools[i].name # tools[j].name

(***************************************************************************)
(* C3. In every state, also between servers and between retry attempts:    *)
(* every catalog identifier has a toolServerMap entry, and the serverId of *)
(* every toolServerMap entry is a key of mcpClients.                       *)
(***************************************************************************)
C3_CatalogHasNamespaceAndConnection ==
  /\ \A k \in DOMAIN tools : tools[k].name \in DOMAIN toolServerMap
  /\ \A id \in DOMAIN toolServerMap :
       getMCPClient(mcpClients, toolServerMap[id].serverId).found

\* a later server waits between two retries while the catalog already holds tools
C3_Witness ==
  /\ pc = "backoff"
  /\ Len(tools) > 0
  /\ retryCount >= 2

(***************************************************************************)
(* C4. Whatever servers fail to connect, connectToServers raises nothing,  *)
(* tries every later entry, and ends with no entry of a failed server in   *)
(* the connection map, the transport map, the catalog or the namespace map.*)
(***************************************************************************)
C4_ConnectFailureIsolated ==
  /\ \A k \in 1..Len(calls) :
       calls[k] = [op |-> "connect", result |-> "threw"] =>
         (loadMCPConfig(configFile).threw \/ Len(Servers) = 0)
  /\ (ConnectDone /\ startedEmpty) =>
       /\ EveryValidEntryTried
       /\ \A sid \in ServerIds :
            serverState[sid] = "ConnectFailed" => NoTraceOf(sid)

\* the first server failed to connect, the second one is ready with its tools
C4_Witness ==
  /\ ConnectDone
  /\ startedEmpty
  /\ Len(Servers) = 2
  /\ serverState[Servers[1].id] = "ConnectFailed"
  /\ serverState[Servers[2].id] = "Ready"
  /\ Len(tools) > 0

(***************************************************************************)
(* C5. A server whose listTools fails on every attempt has listTools       *)
(* called exactly maxRetries = 5 times, contributes nothing to the catalog *)
(* or the namespace map, and the entries after it are still tried.         *)
(***************************************************************************)
C5_RetryBound ==
  /\ \A sid \in ServerIds :
       /\ listCalls[sid] <= maxRetries
       /\ serverState[sid] = "Exhausted" => listCalls[sid] = maxRetries
  /\ (ConnectDone /\ startedEmpty) =>
       /\ EveryValidEntryTried
       /\ \A sid \in ServerIds : serverState[sid] = "Exhausted" => NoToolOf(sid)

\* the first server spent its budget, the second one is ready with its tools
C5_Witness ==
  /\ ConnectDone
  /\ startedEmpty
  /\ Len(Servers) = 2
  /\ serverState[Servers[1].id] = "Exhausted"
  /\ listCalls[Servers[1].id] = 5
  /\ serverState[Servers[2].id] = "Ready"
  /\ Len(tools) > 0

(***************************************************************************)
(* C6. The wait before the k-th retry (k = 1..4) is 1000 * 2^(k-1) ms:     *)
(* 1 s, 2 s, 4 s, 8 s; no wait follows the fifth failed attempt.           *)
(***************************************************************************)
C6_BackoffStartsAtBaseDelay ==
  \A sid \in ServerIds :
    /\ Len(waits[sid]) <= maxRetries - 1
    /\ \A k \in DOMAIN waits[sid] : waits[sid][k] = initialDelayMs * 2^(k - 1)

(***************************************************************************)
(* C7. A server that spent its retry budget is disconnected: getMCPClient  *)
(* finds no client for it and it has no entry in the transport map.        *)
(***************************************************************************)
C7_ExhaustedServerDisconnected ==
  \A sid \in ServerIds :
    (serverState[sid] = "Exhausted" /\ pc \in {"loop", "idle"} /\ ~CloseDone) =>
      /\ ~getMCPClient(mcpClients, sid).found
      /\ sid \notin OrderedKeys(mcpTransports)

(***************************************************************************)
(* C8. closeConnections called twice in succession raises nothing either   *)
(* time, leaves the catalog and the three maps empty after each call, and  *)
(* the second call closes no transport.                                    *)
(***************************************************************************)
C8_CloseTwice ==
  /\ \A k \in 1..Len(calls) : calls[k].op = "close" => calls[k].result = "returned"
  /\ CloseDone => MapsEmpty
  /\ (calls # <<>> /\ LastCall.op = "close" /\ pc \in {"closing", "closeDelay"})
       => (mcpTransports = <<>> /\ closeLog = <<>>)
  /\ (CloseDone /\ Len(calls) >= 2 /\ calls[Len(calls) - 1].op = "close")
       => closeLog = <<>>

\* two closes in a row after a connect that left a ready server behind
C8_Witness ==
  /\ pc = "idle"
  /\ Len(calls) = 3
  /\ calls[1] = [op |-> "connect", result |-> "returned"]
  /\ calls[2].op = "close"
  /\ calls[3].op = "close"
  /\ \E sid \in ServerIds : serverState[sid] = "Ready"

(***************************************************************************)
(* C9. Whatever close() calls fail, with EPIPE or another error,           *)
(* closeConnections calls close() on every stored transport, raises        *)
(* nothing, and ends with every map empty.                                 *)
(***************************************************************************)
C9_CloseFailuresSwallowed ==
  /\ \A k \in 1..Len(calls) : calls[k].op = "close" => calls[k].result # "threw"
  /\ pc = "closeDelay" =>
       /\ Len(closeLog) = Len(mcpTransports)
       /\ \A k \in 1..Len(mcpTransports) :
            closeLog[k].transport = mcpTransports[k].value
  /\ (CloseDone /\ LastCall.result = "returned") => MapsEmpty

\* the first close failed with another error, the second with EPIPE
C9_Witness ==
  /\ pc = "closeDelay"
  /\ Len(closeLog) = 2
  /\ closeLog[1].outcome = "EOTHER"
  /\ closeLog[2].outcome = "EPIPE"

(***************************************************************************)
(* C10. processQuery returns exactly the text of the model response that   *)
(* ended the loop: when the model first requests the tool echo and then    *)
(* answers "hi", the OpenAI orchestrator returns "hi" and nothing else.    *)
(***************************************************************************)
C10_ReturnsFinalTextOnly ==
  (/\ qpc = "returned"
   /\ lastResponse.content.kind = "string"
   /\ \A k \in DOMAIN turnLog : turnLog[k].kind = "result") =>
    queryResult = lastResponse.content.text

(***************************************************************************)
(* Vocabulary of the properties about queries.                             *)
(***************************************************************************)
\* the turns appended for a request, by kind
TurnsOf(request, kind) ==
  {k \in DOMAIN turnLog : turnLog[k].request = request /\ turnLog[k].kind = kind}

\* the requests of the responses handled so far
Requests == 1..requested

\* the model call was sent the turn
SentTurn(call, turn) == Len(call.messages) >= turn.at /\ call.messages[turn.at] = messages[turn.at]

(***************************************************************************)
(* C11. Under either backend, a request whose tool call rejects or whose   *)
(* server has no connection gets an error turn and no result turn; the     *)
(* other requests of the response still get their turns; the error turn is *)
(* sent to the model in a later call; and processQuery rejects only when a *)
(* model call rejected.                                                    *)
(***************************************************************************)
C11_ToolFailureIsATurn ==
  /\ \A r \in failedRequests :
       /\ Cardinality(TurnsOf(r, "error")) = 1
       /\ TurnsOf(r, "result") = {}
  /\ qpc = "returned" =>
       /\ \A r \in Requests : TurnsOf(r, "error") \cup TurnsOf(r, "result") # {}
       /\ \A r \in failedRequests : \A k \in TurnsOf(r, "error") :
            \E c \in DOMAIN modelLog : SentTurn(modelLog[c], turnLog[k])
  /\ qpc = "threw" => modelFailures > 0

\* the first of two requests rejected, the second got its result, and the
\* query returned
C11_Witness ==
  /\ llm = "ANTHROPIC"
  /\ qpc = "returned"
  /\ requested = 2
  /\ failedRequests = {1}
  /\ Len(invocations) = 2
  /\ TurnsOf(2, "result") # {}

(***************************************************************************)
(* C12. Under either backend, once a model call of a query has rejected,   *)
(* processQuery has rejected: no later step of the query is taken, and no  *)
(* error turn stands for anything but a request whose tool call failed.    *)
(* Stated for the queries in which every tool call so far has succeeded.   *)
(***************************************************************************)
C12_ModelFailureRaised ==
  /\ (modelFailures > 0 /\ failedRequests = {}) => qpc = "threw"
  /\ \A k \in DOMAIN turnLog :
       turnLog[k].kind = "error" => turnLog[k].request \in failedRequests

\* the requests a callTool was started for
Invoked == {invocations[k].request : k \in DOMAIN invocations}

\* the requests a result or error turn was appended for
Answered == {turnLog[k].request : k \in DOMAIN turnLog}

(***************************************************************************)
(* C13. Under either backend the tool calls of a response are made one at  *)
(* a time and in request order: when the call for a request is started,    *)
(* every earlier request has its result or error turn; at most one call is *)
(* awaited; and the turns stand in the conversation in request order.      *)
(***************************************************************************)
C13_OneToolCallAtATime ==
  /\ \A j, k \in DOMAIN invocations :
       j < k => invocations[j].request < invocations[k].request
  /\ \A r \in Invoked : \A i \in 1..(r - 1) : i \in Answered
  /\ Cardinality(Invoked \ Answered) <= 1
  /\ (Invoked \ Answered # {}) <=> qpc \in {"tool", "atool"}
  /\ \A j, k \in DOMAIN turnLog :
       j < k => /\ turnLog[j].request <= turnLog[k].request
                /\ turnLog[j].at < turnLog[k].at

\* the call for the second request of a response is awaited, the first
\* request has its turn
C13_Witness ==
  /\ llm = "OPENAI"
  /\ qpc = "tool"
  /\ Len(toolCalls) = 2
  /\ callIdx = 2
  /\ Len(invocations) = 2
  /\ TurnsOf(1, "result") # {}

\* the assistant turns of a conversation that carry tool requests
RequestTurns(msgs) ==
  {i \in DOMAIN msgs : msgs[i].role = "assistant" /\ Len(msgs[i].tool_calls) > 0}

\* the tool-role turns of a conversation
ToolTurns(msgs) == {j \in DOMAIN msgs : msgs[j].role = "tool"}

\* the turns after the request turn i answer its requests one by one, in
\* order, each with the id of its request, and no tool turn follows them
AnsweredInPlace(msgs, i) ==
  LET n == Len(msgs[i].tool_calls)
  IN /\ i + n <= Len(msgs)
     /\ \A k \in 1..n :
          /\ msgs[i + k].role = "tool"
          /\ msgs[i + k].tool_call_id = msgs[i].tool_calls[k].id
     /\ i + n < Len(msgs) => msgs[i + n + 1].role # "tool"

(***************************************************************************)
(* C14. OpenAI: in the conversation sent with any model call, every        *)
(* assistant turn with tool requests is followed at once by one tool-role  *)
(* turn per request, in request order, each carrying the id of its         *)
(* request, whether the call succeeded or failed; and every tool-role turn *)
(* is one of these.                                                        *)
(***************************************************************************)
C14_ToolTurnsFollowTheirRequests ==
  \A c \in DOMAIN modelLog :
    LET msgs == modelLog[c].messages
    IN /\ \A i \in RequestTurns(msgs) : AnsweredInPlace(msgs, i)
       /\ \A j \in ToolTurns(msgs) :
            \E i \in RequestTurns(msgs) : i < j /\ j <= i + Len(msgs[i].tool_calls)

\* a model call was sent a response's two requests, the first with a result
\* turn and the second with an error turn
C14_Witness ==
  /\ llm = "OPENAI"
  /\ Len(modelLog) = 2
  /\ Len(toolCalls) = 2
  /\ TurnsOf(1, "result") # {}
  /\ TurnsOf(2, "error") # {}
  /\ Len(modelLog[2].messages) = 4

\* the model calls that were sent the conversation ending with the turn
CallsAfter(turn) == {c \in DOMAIN modelLog : Len(modelLog[c].messages) = turn.at}

(***************************************************************************)
(* C15. Anthropic: every result or error turn is a user-role turn, and     *)
(* exactly one model call is made with the conversation ending at that     *)
(* turn: the call is made with the turn, before the next block of the      *)
(* response is looked at, so no call is sent two new turns at once.        *)
(***************************************************************************)
C15_OneModelCallPerToolTurn ==
  /\ \A k \in DOMAIN turnLog :
       /\ messages[turnLog[k].at].role = "user"
       /\ Cardinality(CallsAfter(turnLog[k])) = 1
  /\ Len(modelLog) = (IF qpc = "idle" THEN 0 ELSE 1) + Len(turnLog)
  /\ \A c \in 2..Len(modelLog) :
       Len(modelLog[c].messages) = Len(modelLog[c - 1].messages) + 1

\* both requests of a response were answered, one by a result and one by an
\* error, and three model calls were made
C15_Witness ==
  /\ llm = "ANTHROPIC"
  /\ qpc = "returned"
  /\ TurnsOf(1, "result") # {}
  /\ TurnsOf(2, "error") # {}
  /\ Len(turnLog) = 2
  /\ Len(modelLog) = 3

(***************************************************************************)
(* C16. OpenAI: processQuery returns only on a model response without tool *)
(* requests, and when that is the n-th response it has made exactly n      *)
(* model calls: one for the query and one after each response with tool    *)
(* requests, each of these made when every request of that response had    *)
(* its turn.  Nothing else ends the query, however many responses carry    *)
(* tool requests.                                                          *)
(***************************************************************************)
C16_OneModelCallPerResponse ==
  /\ qpc = "returned" =>
       /\ lastResponse.tool_calls = <<>>
       /\ modelCalls = Cardinality(RequestTurns(messages)) + 1
  /\ Len(modelLog) = modelCalls
  /\ \A c \in DOMAIN modelLog :
       /\ Cardinality(RequestTurns(modelLog[c].messages)) = c - 1
       /\ \A i \in RequestTurns(modelLog[c].messages) :
            AnsweredInPlace(modelLog[c].messages, i)

\* the third response was the first without tool requests and the query
\* returned after three model calls
C16_Witness ==
  /\ llm = "OPENAI"
  /\ qpc = "returned"
  /\ modelCalls = 3
  /\ Cardinality(RequestTurns(messages)) = 2

\* the combined catalog in the shape the backend takes
CatalogSent == IF llm = "OPENAI" THEN OpenAITools(getTools) ELSE getTools

(***************************************************************************)
(* C17. Under either backend every model call of a query, the first and    *)
(* every later one, is sent the tools, and they are the whole combined     *)
(* catalog.  Stated for the queries in which no tool call and no model     *)
(* call has failed.                                                        *)
(***************************************************************************)
C17_EveryModelCallCarriesCatalog ==
  (failedRequests = {} /\ modelFailures = 0) =>
    \A c \in DOMAIN modelLog :
      /\ modelLog[c].withTools
      /\ modelLog[c].tools = CatalogSent

\* the chat history as turns of a working conversation
HistoryTurns(h) ==
  [k \in DOMAIN h |-> [role |-> h[k].role, content |-> StringContent(h[k].content)]]

(***************************************************************************)
(* C18. The conversation sent with the first model call of a query is the  *)
(* stored chat history, oldest entry first, followed by the new user turn: *)
(* with a chat history that is not empty it is longer than one turn.       *)
(***************************************************************************)
C18_FirstCallCarriesHistory ==
  modelLog # <<>> =>
    modelLog[1].messages =
      HistoryTurns(chatHistory) \o <<[role |-> "user", content |-> StringContent(query)]>>

\* user, assistant, user, assistant, ...
Alternates(h) ==
  \A k \in DOMAIN h : h[k].role = (IF k % 2 = 1 THEN "user" ELSE "assistant")

(***************************************************************************)
(* C19. Whenever processQuery has completed, for any number of queries,    *)
(* the chat history holds at most 2 * MAX_CHAT_TURNS entries, an even      *)
(* number of them, and they alternate user, assistant from a user entry:   *)
(* no assistant entry stands at the front.                                 *)
(***************************************************************************)
C19_HistoryBoundedAndAlternating ==
  qpc = "prompt" =>
    /\ Len(chatHistory) <= 2 * MAX_CHAT_TURNS
    /\ Len(chatHistory) % 2 = 0
    /\ Alternates(chatHistory)

\* more queries than MAX_CHAT_TURNS have completed and the history is full
C19_Witness ==
  /\ qpc = "prompt"
  /\ Len(completed) = MAX_CHAT_TURNS + 1
  /\ Len(chatHistory) = 2 * MAX_CHAT_TURNS

\* the last n of the pairs
LastPairs(pairs, n) == SubSeq(pairs, Len(pairs) - n + 1, Len(pairs))

\* the smaller of two numbers
Min(a, b) == IF a < b THEN a ELSE b

(***************************************************************************)
(* C20. The chat history is a sliding window: whenever processQuery has    *)
(* completed, it holds the queries and responses of the last               *)
(* min(q, MAX_CHAT_TURNS) of the q completed queries, oldest first, so a   *)
(* query completing on a full history removes the oldest pair and nothing  *)
(* else.                                                                   *)
(***************************************************************************)
C20_HistoryIsSlidingWindow ==
  qpc = "prompt" =>
    chatHistory = HistoryOf(LastPairs(completed, Min(Len(completed), MAX_CHAT_TURNS)))

\* two pairs have slid out of the history
C20_Witness ==
  /\ qpc = "prompt"
  /\ Len(completed) = MAX_CHAT_TURNS + 2
  /\ asked = MAX_CHAT_TURNS + 2
  /\ chatHistory[1].content = QueryText(3)
  /\ chatHistory[2 * MAX_CHAT_TURNS].content = ResponseText(MAX_CHAT_TURNS + 2)

(***************************************************************************)
(* C21. The chat history changes only when a query completes: no step of   *)
(* either client's processQuery changes it, and when processQuery rejects  *)
(* the history is what it was when the query was asked.  Only the steps of *)
(* addToChatHistory and pruneHistory, taken after the client returned,     *)
(* change it.                                                              *)
(***************************************************************************)
C21_HistoryChangesOnlyOnCompletion ==
  [][/\ qpc \notin {"returned", "addedUser", "prune"} => chatHistory' = chatHistory
     /\ qpc' = "threw" => chatHistory' = HistoryOf(completed)]_vars

\* a query rejected at its second model call, with a full chat history
C21_Witness ==
  /\ qpc = "threw"
  /\ modelCalls = 2
  /\ Len(turnLog) > 0
  /\ Len(chatHistory) = 2 * MAX_CHAT_TURNS
  /\ chatHistory = HistoryOf(completed)

(***************************************************************************)
(* Vocabulary of the properties about the session.                         *)
(***************************************************************************)
\* the events reported so far
Events == [k \in DOMAIN sessionLog |-> sessionLog[k].event]

(***************************************************************************)
(* C22. In chatLoop a query whose processQuery rejects does not end the    *)
(* session: the error is reported and the next question is asked.  The     *)
(* session ends only from the prompt, on the input quit or exit: every     *)
(* step that takes the loop out of its prompt and its query, other than    *)
(* the exit with status 1 of the uncaughtException handler, reports that   *)
(* input.                                                                  *)
(***************************************************************************)
C22_FailedQueryKeepsSession ==
  [][(/\ mainPc \in {"question", "processing"}
      /\ mainPc' \notin {"question", "processing"}
      /\ exitCode' # 1) =>
        /\ mainPc = "question"
        /\ mainPc' = "loopEnded"
        /\ Len(sessionLog') = Len(sessionLog) + 1
        /\ sessionLog'[Len(sessionLog')].event = "quit"
        /\ ToLowerCase[sessionLog'[Len(sessionLog')].text] \in {"quit", "exit"}]_vars

(***************************************************************************)
(* C23. However the process ends once chatLoop has started, by quit or by  *)
(* an uncaught exception, cleanup (closeConnections) has been called       *)
(* exactly once when it exits.                                             *)
(***************************************************************************)
C23_CleanupOnceBeforeExit ==
  (/\ mainPc = "exited"
   /\ \E k \in DOMAIN sessionLog : Events[k] = "started") =>
    cleanupCalls = 1

\* the failure is one of the configuration file: it is missing, does not
\* parse, has no mcpServers object or has no entry
ConfigLevelFailure ==
  loadMCPConfig(configFile).threw \/ Len(Servers) = 0

\* nothing was done for any server: no transport created, no connect awaited
NoConnectionAttempted == serverState = AllUnconnected

\* the last call is a connectToServers that threw
ConnectThrew ==
  /\ pc = "idle"
  /\ calls # <<>>
  /\ LastCall = [op |-> "connect", result |-> "threw"]

(***************************************************************************)
(* C24. connectToServers raises exactly on a configuration-file failure    *)
(* (file missing, unparseable, mcpServers missing, zero entries), and then *)
(* no connection has been attempted and the maps are as they were; when    *)
(* every configured server fails it returns normally with an empty         *)
(* catalog.                                                                *)
(***************************************************************************)
C24_RaisesOnlyOnConfigFailure ==
  /\ ConnectThrew => (NoConnectionAttempted /\ MapsEmpty)
  /\ (ConfigLevelFailure /\ ConnectCalls > 0 /\ pc = "idle") =>
       \A k \in 1..Len(calls) : calls[k].op = "connect" => calls[k].result = "threw"
  /\ (ConnectDone /\ startedEmpty /\ \A sid \in ServerIds : serverState[sid] # "Ready")
       => tools = <<>>

\* a connectToServers call has just ended, by returning or by throwing, and
\* it went through the entries
ConnectEnded ==
  /\ pc = "idle"
  /\ calls # <<>>
  /\ LastCall.op = "connect"
  /\ ~ConfigLevelFailure

(***************************************************************************)
(* C25. An entry with no command or with args that is not a list is        *)
(* skipped: nothing is created, connected or registered for it, and every  *)
(* later entry of the configuration is still processed.                    *)
(***************************************************************************)
C25_InvalidEntrySkipped ==
  \A k \in 1..Len(Servers) :
    ~EntryValid(Servers[k]) =>
      /\ serverState[Servers[k].id] = "Unconnected"
      /\ NoTraceOf(Servers[k].id)
      /\ ConnectEnded =>
           \A j \in (k + 1)..Len(Servers) :
             EntryValid(Servers[j]) => serverState[Servers[j].id] # "Unconnected"

\* the entry of the response being handled is a tool request
IsRequest(b) == "name" \in DOMAIN b

\* the requests of the response being handled that have no namespace entry
\* and have been dealt with: a result or error turn stands for them
UnresolvedAnswered ==
  {k \in DOMAIN toolCalls :
     /\ IsRequest(toolCalls[k])
     /\ toolCalls[k].name \notin DOMAIN toolServerMap
     /\ toolCalls[k].id \in Answered}

(***************************************************************************)
(* C26. A tool identifier without a namespace entry is dispatched with the *)
(* identifier itself as server id and as tool name: when a connection      *)
(* whose server id equals the identifier exists, the tool named by the     *)
(* identifier is called on it.                                             *)
(***************************************************************************)
C26_UnresolvedFallsBackToIdentifier ==
  \A k \in UnresolvedAnswered :
    getMCPClient(mcpClients, toolCalls[k].name).found =>
      \E i \in DOMAIN invocations :
        /\ invocations[i].request = toolCalls[k].id
        /\ invocations[i].serverId = toolCalls[k].name
        /\ invocations[i].name = toolCalls[k].name

(***************************************************************************)
(* A query against a manager one of whose servers has the id "default".    *)
(***************************************************************************)
QueryServersWithDefault ==
  {<<[id |-> "default", toolList |-> <<ServerTool("echo")>>]>>}

InitDefaultServer ==
  /\ \E servers \in QueryServersWithDefault : ManagerConnectedTo(servers)
  /\ InitQuery
  /\ InitSession
  /\ llm \in {"OPENAI", "ANTHROPIC"}
  /\ NoLaunch

SpecDefaultServer == InitDefaultServer /\ [][NextProcessQuery]_vars

(***************************************************************************)
(* C27. For a tool identifier without a namespace entry, whatever the      *)
(* configured server ids are, no callTool is issued to any server, an      *)
(* error turn is appended for the request, and the query does not fail.    *)
(***************************************************************************)
C27_UnresolvedIsNeverCalled ==
  \A k \in UnresolvedAnswered :
    /\ toolCalls[k].id \notin Invoked
    /\ TurnsOf(toolCalls[k].id, "error") # {}
    /\ qpc = "threw" => modelFailures > 0

\* the error turns the two clients write for a callTool that failed with
\* "Connection closed"
ConnectionClosedTurns(request) ==
  {ToolErrorMessage([id |-> request], "Connection closed")}
  \cup {ErrorUserMessage(n, "Connection closed") : n \in RequestNames}

\* the callTool invocations that failed with "Connection closed"
ClosedInvocations ==
  {i \in DOMAIN invocations :
     \E t \in TurnsOf(invocations[i].request, "error") :
       messages[turnLog[t].at] \in ConnectionClosedTurns(invocations[i].request)}

(***************************************************************************)
(* C28. After a callTool has failed with "Connection closed", the server's *)
(* connection and its catalog and namespace entries are removed, and no    *)
(* later request of the query is sent to that server by callTool.          *)
(***************************************************************************)
C28_DisconnectedServerRemoved ==
  \A i \in ClosedInvocations :
    /\ NoTraceOf(invocations[i].serverId)
    /\ \A j \in DOMAIN invocations :
         j > i => invocations[j].serverId # invocations[i].serverId

(***************************************************************************)
(* The launch command of a server (mcp-server.ts, determineServerType at   *)
(* 75-98 and the platform adjustment at 132-157).  Strings are sequences   *)
(* of characters, so that String.prototype.includes is computed and not    *)
(* assumed.                                                                *)
(***************************************************************************)
MaxArgs == 2

S_python == <<"p", "y", "t", "h", "o", "n">>
S_python3 == <<"p", "y", "t", "h", "o", "n", "3">>
S_npx == <<"n", "p", "x">>
S_npx_cmd == <<"n", "p", "x", ".", "c", "m", "d">>
S_node == <<"n", "o", "d", "e">>
S_docker == <<"d", "o", "c", "k", "e", "r">>
S_uvx == <<"u", "v", "x">>
S_dot_py == <<".", "p", "y">>
S_dot_js == <<".", "j", "s">>
S_space == <<" ">>
A_server_py == <<"s", "e", "r", "v", "e", "r", ".", "p", "y">>
A_index_js == <<"i", "n", "d", "e", "x", ".", "j", "s">>
A_yes == <<"-", "y">>
A_npx_mcp == <<"n", "p", "x", "-", "m", "c", "p">>

\* process.platform
Platforms == {"win32", "linux", "darwin"}

\* serverConfig.command and the strings serverConfig.args is made of
LaunchCommands == {S_python, S_python3, S_npx, S_node, S_docker}
LaunchArgs == {A_server_py, A_index_js, A_yes, A_npx_mcp}

ArgLists == UNION {[1..n -> LaunchArgs] : n \in 0..MaxArgs}

\* String.prototype.includes
Includes(s, sub) ==
  \E i \in 0..(Len(s) - Len(sub)) : SubSeq(s, i + 1, i + Len(sub)) = sub

\* Array.prototype.join
RECURSIVE JoinChars(_, _)
JoinChars(strings, sep) ==
  IF strings = <<>> THEN <<>>
  ELSE IF Len(strings) = 1 THEN strings[1]
  ELSE strings[1] \o sep \o JoinChars(Tail(strings), sep)

\* const commandString = `${command} ${args.join(' ')}`
CommandString(cmd, argList) == cmd \o S_space \o JoinChars(argList, S_space)

\* lines 75-98
determineServerType(cmd, argList) ==
  LET commandString == CommandString(cmd, argList)
  IN  [isJs |-> \/ cmd = S_node
                \/ \E k \in DOMAIN argList : Includes(argList[k], S_dot_js)
                \/ Includes(commandString, S_dot_js),
       isPy |-> \/ cmd = S_python
                \/ \E k \in DOMAIN argList : Includes(argList[k], S_dot_py)
                \/ Includes(commandString, S_dot_py),
       isDocker |-> cmd = S_docker \/ Includes(commandString, S_docker),
       isNpx |-> cmd = S_npx \/ Includes(commandString, S_npx),
       isUvx |-> cmd = S_uvx \/ Includes(commandString, S_uvx)]

\* lines 132-157: the command the transport is created with
AdjustedCommand(plat, cmd, argList) ==
  LET type == determineServerType(cmd, argList)
  IN  IF plat = "win32"
      THEN IF type.isNpx THEN S_npx_cmd
           ELSE IF type.isPy /\ cmd = S_python3 THEN S_python
           ELSE cmd
      ELSE IF type.isPy /\ cmd = S_python THEN S_python3
           ELSE cmd

\* the for loop body from line 132 up to new StdioClientTransport (178)
CreateTransport ==
  /\ command = <<>>
  /\ command' = AdjustedCommand(platform, serverConfig.command, serverConfig.args)
  /\ UNCHANGED <<platform, serverConfig>>
  /\ UNCHANGED <<configFile, mcpClients, mcpTransports, tools, toolServerMap, pc,
                 idx, retryCount, connectedServers, calls, serverState, listCalls,
                 waits, produced, startedEmpty, closeLog, indexVars>>
  /\ UNCHANGED qVars

\* a valid entry has been read on some platform
InitLaunch ==
  /\ platform \in Platforms
  /\ serverConfig \in [command : LaunchCommands, args : ArgLists]
  /\ command = <<>>
  /\ configFile = [kind |-> "ok", servers |-> <<>>]
  /\ InitManager
  /\ InitQuery
  /\ InitSession
  /\ llm = "ANTHROPIC"

NextLaunch == CreateTransport

SpecLaunch == InitLaunch /\ [][NextLaunch]_vars

\* the transport of the entry has been created
Launched == command # <<>>

(***************************************************************************)
(* C29. Whatever the arguments, on Windows a configured command python3 is *)
(* launched as python, and on Unix-like systems a configured command       *)
(* python is launched as python3.                                          *)
(***************************************************************************)
C29_PythonNormalized ==
  Launched =>
    /\ (platform = "win32" /\ serverConfig.command = S_python3) => command = S_python
    /\ (platform # "win32" /\ serverConfig.command = S_python) => command = S_python3

(***************************************************************************)
(* C30. On Windows the launch command is npx.cmd exactly when the          *)
(* configured command is npx, whatever the arguments contain; on other     *)
(* platforms the command npx is left as it is.                             *)
(***************************************************************************)
C30_NpxCmdOnlyForNpx ==
  Launched =>
    /\ platform = "win32" => (command = S_npx_cmd <=> serverConfig.command = S_npx)
    /\ (platform # "win32" /\ serverConfig.command = S_npx) => command = S_npx

\* the servers whose connect or catalog retrieval is in progress
InProgress ==
  {sid \in ServerIds :
     serverState[sid] \in {"Launching", "Connecting", "Connected", "Initializing"}}

\* the servers the current connect call is done with
Settled == {sid \in ServerIds : serverState[sid] \in {"Ready", "ConnectFailed", "Exhausted"}}

\* the place of a configured server in mcpServers
PlaceOf(sid) == CHOOSE k \in 1..Len(Servers) : Servers[k].id = sid

(***************************************************************************)
(* C31. Servers are brought up one at a time in configuration order: at    *)
(* most one server is Connecting or Initializing, every valid entry before *)
(* it has registered its tools or failed, no entry after it has been       *)
(* started, and the catalog lists the tools grouped by server in           *)
(* configuration order.                                                    *)
(***************************************************************************)
C31_OneServerAtATime ==
  /\ Cardinality(InProgress) <= 1
  /\ \A sid \in InProgress :
       \A k \in 1..Len(Servers) :
         /\ (k < PlaceOf(sid) /\ EntryValid(Servers[k])) => Servers[k].id \in Settled
         /\ k > PlaceOf(sid) => serverState[Servers[k].id] = "Unconnected"
  /\ startedEmpty =>
       \A i, j \in DOMAIN produced :
         i < j => PlaceOf(produced[i].serverId) <= PlaceOf(produced[j].serverId)

\* the second server waits between two retries, the first one is ready with its tools
C31_Witness ==
  /\ pc = "backoff"
  /\ idx = 2
  /\ retryCount >= 2
  /\ serverState[Servers[1].id] = "Ready"
  /\ serverState[Servers[2].id] = "Initializing"
  /\ Len(tools) > 0

(***************************************************************************)
(* C32. In the OpenAI variant the content of every tool-role turn appended *)
(* after a successful tool invocation is flattened plain text, whatever    *)
(* the shape of the result content.                                        *)
(***************************************************************************)
C32_ToolTurnIsPlainText ==
  \A t \in DOMAIN turnLog :
    turnLog[t].kind = "result" =>
      /\ messages[turnLog[t].at].role = "tool"
      /\ messages[turnLog[t].at].content.kind = "string"

(***************************************************************************)
(* pruneHistory on its own (part_000, lines 313-347), on any history of    *)
(* user and assistant entries: also on histories addToChatHistory never    *)
(* builds, such as one user entry followed by assistant entries only.      *)
(***************************************************************************)
\* how far over 2 * MAX_CHAT_TURNS entries the histories go
MaxOver == 4

\* a history whose roles repeat: one user entry, then chunk - 1 assistant entries
ChunkedHistory(len, chunk) ==
  [k \in 1..len |->
     [role |-> IF (k - 1) % chunk = 0 THEN "user" ELSE "assistant",
      content |-> "m" \o ToString(k)]]

\* a history of one role only after its first entry
OneUserHistory(len, first) ==
  [k \in 1..len |->
     [role |-> IF k = 1 THEN first ELSE "assistant",
      content |-> "m" \o ToString(k)]]

PruneInputs ==
  UNION {{ChunkedHistory(len, chunk) : chunk \in 1..4}
         \cup {OneUserHistory(len, first) : first \in {"user", "assistant"}}
           : len \in (2 * MAX_CHAT_TURNS - 3)..(2 * MAX_CHAT_TURNS + MaxOver)}

InitPrune ==
  /\ ManagerConnectedTo(<<[id |-> "a", toolList |-> <<ServerTool("echo")>>]>>)
  /\ InitQuery
  /\ llm = "ANTHROPIC"
  /\ chatHistory \in PruneInputs
  /\ query = ""
  /\ asked = 1
  /\ completed = <<>>
  /\ NoLaunch

\* pruneHistory is entered
EnterPruneHistory ==
  /\ qpc = "idle"
  /\ qpc' = "prune"
  /\ UNCHANGED <<messages, sentTools, finalText, toolCalls, callIdx, modelCalls,
                 requested, lastResponse, invocations, turnLog, queryResult,
                 modelLog, failedRequests, modelFailures>>
  /\ UNCHANGED <<sessVars, mgrVars, procVars>>

NextPrune ==
  \/ EnterPruneHistory
  \/ PruneIteration
  \/ PruneEnds

SpecPrune == InitPrune /\ [][NextPrune]_vars

(***************************************************************************)
(* C33. pruneHistory terminates: every iteration of its loop removes at    *)
(* least one leading entry or stops, and an over-budget history without a  *)
(* second user entry makes it stop with the history unchanged.             *)
(***************************************************************************)
C33_PruneTerminates ==
  /\ []((qpc = "prune" /\ OverLimit(chatHistory) /\ SecondUserMsgIndex(chatHistory) > 0)
          => Len(PruneOldest(chatHistory)) < Len(chatHistory))
  /\ [][qpc = "prune" =>
         /\ \/ /\ qpc' = "prune"
               /\ Len(chatHistory') < Len(chatHistory)
               /\ chatHistory' = SpliceFront(chatHistory, Len(chatHistory) - Len(chatHistory'))
            \/ /\ qpc' = "prompt"
               /\ chatHistory' = chatHistory
         /\ (OverLimit(chatHistory) /\ SecondUserMsgIndex(chatHistory) = -1) =>
              (qpc' = "prompt" /\ chatHistory' = chatHistory)]_vars

\* pruneHistory has stopped on a history that is over budget and has one user entry
C33_Witness ==
  /\ qpc = "prompt"
  /\ Len(completed) = 1
  /\ OverLimit(chatHistory)
  /\ chatHistory[1].role = "user"
  /\ SecondUserMsgIndex(chatHistory) = -1

(***************************************************************************)
(* The monolithic client of src/index.ts.  Its connectToServers (143-329)  *)
(* has the statements of the manager's, except that listTools is called    *)
(* once, without retries (281); its closeConnections (734-757) clears the  *)
(* three maps.  The actions shared with the manager are the manager's.     *)
(* callAnthropic (519-627) and chatLoop (632-729) remove servers whose     *)
(* connection has closed; the model, the user and the servers' answers are *)
(* the environment.  While a callTool is outstanding the other calls go on.*)
(***************************************************************************)
\* index.ts 281, 313-316: listTools rejects, the per-server catch logs it and
\* the loop goes on
IndexListToolsFails ==
  /\ pc = "listing"
  /\ pc' = "loop"
  /\ idx' = idx + 1
  /\ serverState' = [serverState EXCEPT ![CurrentId] = "Exhausted"]
  /\ UNCHANGED <<configFile, mcpClients, mcpTransports, tools, toolServerMap,
                 retryCount, connectedServers, calls, listCalls, waits, produced,
                 startedEmpty, closeLog>>
  /\ UNCHANGED <<qVars, launchVars, indexVars>>

\* index.ts 754-756: mcpClients, mcpTransports and toolServerMap are cleared
IndexClearMaps ==
  /\ mcpClients' = EmptyMap
  /\ mcpTransports' = <<>>
  /\ toolServerMap' = EmptyMap
  /\ tools' = tools

\* index.ts 750-757: the delay is over, the maps are cleared, closeConnections
\* returns
IndexCloseReturns ==
  /\ pc = "closeDelay"
  /\ IndexClearMaps
  /\ pc' = "idle"
  /\ calls' = Append(calls, [op |-> "close", result |-> "returned"])
  /\ UNCHANGED <<configFile, idx, retryCount, connectedServers, serverState,
                 listCalls, waits, produced, startedEmpty, closeLog>>
  /\ UNCHANGED <<qVars, launchVars, indexVars>>

\* what a tool name the model may request resolves to (index.ts 536-546)
IndexServerIdOf(toolName) ==
  IF toolName \in DOMAIN toolServerMap
  THEN toolServerMap[toolName].serverId
  ELSE "default"

\* the names the model may put in a tool_use block
IndexRequestable == {tools[k].name : k \in DOMAIN tools} \cup {"unlisted"}

\* mcpClient.callTool resolves, or rejects with one of these
CallToolOutcomes == {"ok", "Connection closed", "Request timed out"}

\* Map.delete on the maps
MapDelete(m, k) == [x \in DOMAIN m \ {k} |-> m[x]]
OrderedMapDelete(m, k) == SelectSeq(m, LAMBDA e : e.key # k)

\* index.ts 583-593: the namespace entries of the server are deleted
IndexNamespaceWithout(serverId) ==
  [n \in {x \in DOMAIN toolServerMap : toolServerMap[x].serverId # serverId}
     |-> toolServerMap[n]]

\* the catalog with, per entry, the server and tool it came from
CatalogWithOrigin == [k \in DOMAIN tools |-> [tool |-> tools[k], from |-> produced[k]]]

\* index.ts 594-597: an entry stays when its name still has a namespace entry
\* and that entry is of another server
IndexCatalogWithout(serverId) ==
  SelectSeq(CatalogWithOrigin,
            LAMBDA c : /\ c.tool.name \in DOMAIN IndexNamespaceWithout(serverId)
                       /\ IndexNamespaceWithout(serverId)[c.tool.name].serverId # serverId)

\* the server id the outstanding callTool was dispatched with: the catch
\* uses the serverId of line 538, set before the await
CapturedServerId == invocations[Len(invocations)].serverId

\* callAnthropic, one tool_use block up to the await of callTool (index.ts
\* 533-559): the server and its client are looked up; without a client the
\* Error of line 552 goes to the catch, whose message is not "Connection
\* closed", and the maps stay as they are
IndexDispatchToolUse ==
  /\ qpc = "idle"
  /\ llm = "ANTHROPIC"
  /\ \E toolName \in IndexRequestable :
       IF IndexServerIdOf(toolName) \in DOMAIN mcpClients
       THEN /\ qpc' = "atool"
            /\ invocations' =
                 <<[serverId |-> IndexServerIdOf(toolName),
                    name |-> toolServerMap[toolName].originalName]>>
       ELSE UNCHANGED <<qpc, invocations>>
  /\ UNCHANGED <<messages, sentTools, finalText, toolCalls, callIdx, modelCalls,
                 requested, lastResponse, turnLog, queryResult, modelLog,
                 failedRequests, modelFailures, sessVars, procVars>>
  /\ UNCHANGED mgrVars

\* the place of a server in the key order of the maps, 0 when it has none
PlaceInMap(m, serverId) ==
  IF \E p \in 1..Len(m) : m[p].key = serverId
  THEN CHOOSE p \in 1..Len(m) : m[p].key = serverId
  ELSE 0

\* a for...of loop over a Map is awaiting in its body
IndexLoopRunning == pc \in {"closing", "health"}

\* Map.delete under a running iterator: idx is the number of entries the
\* iterator has passed, so it falls by one when one of them is deleted and
\* the entries not yet reached stay ahead of it
IterationAfterDelete(m, serverId) ==
  IF /\ IndexLoopRunning
     /\ PlaceInMap(m, serverId) > 0
     /\ PlaceInMap(m, serverId) <= idx
  THEN idx - 1
  ELSE idx

\* callTool is answered (index.ts 556-612): when it rejects with "Connection
\* closed" the server is taken out of the maps and the catalog as they are
\* by then
IndexCallTool ==
  /\ qpc = "atool"
  /\ \E outcome \in CallToolOutcomes :
       LET serverId == CapturedServerId
       IN  IF outcome = "Connection closed"
           THEN /\ mcpClients' = MapDelete(mcpClients, serverId)
                /\ mcpTransports' = OrderedMapDelete(mcpTransports, serverId)
                /\ idx' = IterationAfterDelete(mcpTransports, serverId)
                /\ toolServerMap' = IndexNamespaceWithout(serverId)
                /\ tools' = [k \in DOMAIN IndexCatalogWithout(serverId) |->
                               IndexCatalogWithout(serverId)[k].tool]
                /\ produced' = [k \in DOMAIN IndexCatalogWithout(serverId) |->
                                  IndexCatalogWithout(serverId)[k].from]
                /\ serverState' = [serverState EXCEPT ![serverId] = "Removed"]
           ELSE UNCHANGED <<mcpClients, mcpTransports, idx, toolServerMap, tools,
                            produced, serverState>>
  /\ qpc' = "idle"
  /\ UNCHANGED <<configFile, pc, retryCount, connectedServers, calls,
                 listCalls, waits, startedEmpty, closeLog, launchVars, indexVars>>
  /\ UNCHANGED <<messages, sentTools, finalText, toolCalls, callIdx, modelCalls,
                 requested, lastResponse, invocations, turnLog, queryResult,
                 modelLog, failedRequests, modelFailures, sessVars, procVars>>

\* the head of a for...of loop over the entries of m with idx of them passed:
\* the next entry is given to the body, or the loop is over
IterationNext(m, passed, running, over) ==
  IF passed < Len(m)
  THEN /\ visiting' = m[passed + 1]
       /\ idx' = passed + 1
       /\ pc' = running
  ELSE /\ visiting' = NoEntry
       /\ idx' = passed
       /\ pc' = over

\* closeConnections is called (index.ts 734-738): close() of the first
\* transport is awaited, or with no transport the 100 ms delay (751)
IndexCallCloseConnections ==
  /\ pc = "idle"
  /\ Len(calls) < MaxCalls
  /\ closeLog' = <<>>
  /\ IterationNext(mcpTransports, 0, "closing", "closeDelay")
  /\ UNCHANGED <<configFile, mcpClients, mcpTransports, tools, toolServerMap,
                 retryCount, connectedServers, calls, serverState, listCalls,
                 waits, produced, startedEmpty, connectedClients>>
  /\ UNCHANGED <<qVars, launchVars>>

\* index.ts 736-748: close() of the transport the loop was given resolves or
\* rejects, and the loop goes to the next transport the map holds by then
IndexCloseTransport ==
  /\ pc = "closing"
  /\ \E outcome \in CloseOutcomes :
       closeLog' = Append(closeLog, [transport |-> visiting.value,
                                     outcome |-> outcome])
  /\ IterationNext(mcpTransports, idx, "closing", "closeDelay")
  /\ UNCHANGED <<configFile, mcpClients, mcpTransports, tools, toolServerMap,
                 retryCount, connectedServers, calls, serverState, listCalls,
                 waits, produced, startedEmpty, connectedClients>>
  /\ UNCHANGED <<qVars, launchVars>>

\* chatLoop, processQuery has rejected (index.ts 693-702): listTools of the
\* first client is awaited; with no client the loop and the test of line 715
\* pass at once.  mcpClients and mcpTransports are set and deleted together,
\* so the keys of mcpTransports are those of mcpClients, in the same order
IndexHealthCheckStarts ==
  /\ pc = "idle"
  /\ connectedClients' = 0
  /\ IterationNext(mcpTransports, 0, "health", "idle")
  /\ UNCHANGED <<configFile, mcpClients, mcpTransports, tools, toolServerMap,
                 retryCount, connectedServers, calls, serverState, listCalls,
                 waits, produced, startedEmpty, closeLog>>
  /\ UNCHANGED <<qVars, launchVars>>

\* no catalog entry is given a _serverId (index.ts 294-298)
IndexServerIdField(tool) == "undefined"

\* index.ts 715-720 on the maps the loop leaves: with no client having
\* answered and clients left, everything but toolServerMap is cleared
IndexAfterHealthLoop(clients, transports, catalog, origins, answered) ==
  IF answered = 0 /\ Cardinality(DOMAIN clients) > 0
  THEN /\ mcpClients' = EmptyMap
       /\ mcpTransports' = <<>>
       /\ tools' = <<>>
       /\ produced' = <<>>
  ELSE /\ mcpClients' = clients
       /\ mcpTransports' = transports
       /\ tools' = catalog
       /\ produced' = origins

\* index.ts 700-720: listTools of the client the loop was given resolves, or
\* it rejects and the client and its transport are deleted; the loop goes to
\* the next client the map holds by then, or ends with the test of line 715
IndexHealthListTools ==
  /\ pc = "health"
  /\ \E answers \in BOOLEAN :
       LET serverId == visiting.key
           answered == IF answers THEN connectedClients + 1 ELSE connectedClients
           clients == IF answers THEN mcpClients ELSE MapDelete(mcpClients, serverId)
           transports == IF answers THEN mcpTransports
                         ELSE OrderedMapDelete(mcpTransports, serverId)
           passed == IF answers THEN idx
                     ELSE IterationAfterDelete(mcpTransports, serverId)
           catalog == IF answers THEN tools
                      ELSE SelectSeq(tools, LAMBDA t : IndexServerIdField(t) # serverId)
       IN  /\ connectedClients' = answered
           /\ serverState' = IF answers \/ serverId \notin DOMAIN mcpClients
                             THEN serverState
                             ELSE [serverState EXCEPT ![serverId] = "Removed"]
           /\ IterationNext(transports, passed, "health", "idle")
           /\ IF passed < Len(transports)
              THEN /\ mcpClients' = clients
                   /\ mcpTransports' = transports
                   /\ tools' = catalog
                   /\ produced' = produced
              ELSE IndexAfterHealthLoop(clients, transports, catalog, produced, answered)
  /\ UNCHANGED <<configFile, toolServerMap, retryCount, connectedServers,
                 calls, listCalls, waits, startedEmpty, closeLog>>
  /\ UNCHANGED <<qVars, launchVars>>

NextIndex ==
  \/ CallConnectToServers
  \/ SkipInvalidEntry
  \/ DetectionThrows
  \/ StartConnect
  \/ LaunchDelayElapsed
  \/ ConnectFails
  \/ ConnectSucceeds
  \/ UvxDelayElapsed
  \/ IndexListToolsFails
  \/ ListToolsSucceeds
  \/ ConnectReturns
  \/ IndexCallCloseConnections
  \/ IndexCloseTransport
  \/ IndexCloseReturns
  \/ IndexDispatchToolUse
  \/ IndexCallTool
  \/ IndexHealthCheckStarts
  \/ IndexHealthListTools

SpecIndex == Init /\ [][NextIndex]_vars

(***************************************************************************)
(* C34. In the monolithic client, after closeConnections returns the tool  *)
(* catalog is empty like the connection, transport and namespace maps: no  *)
(* identifier remains in the catalog without a namespace entry and a       *)
(* connection.                                                             *)
(***************************************************************************)
C34_IndexCloseClearsCatalog ==
  (CloseDone /\ LastCall.result = "returned") =>
    /\ MapsEmpty
    /\ \A k \in DOMAIN tools :
         /\ tools[k].name \in DOMAIN toolServerMap
         /\ getMCPClient(mcpClients, toolServerMap[tools[k].name].serverId).found

\* the ids of the tool requests of the first model response
FirstResponseRequests ==
  {toolCalls[k].id : k \in {j \in DOMAIN toolCalls : toolCalls[j].type = "tool_use"}}

(***************************************************************************)
(* C35. AnthropicClient.processQuery is bounded whatever the model         *)
(* answers: only the tool requests of the first response are dispatched,   *)
(* each at most once and none from a follow-up response, and for k tool    *)
(* requests in the first response the query makes at most 1 + 2k model     *)
(* calls and at most k tool invocations.                                   *)
(***************************************************************************)
C35_AnthropicBounded ==
  qpc # "idle" =>
    /\ callIdx <= Len(toolCalls) + 1
    /\ modelCalls <= 1 + 2 * Cardinality(FirstResponseRequests)
    /\ Len(invocations) <= Cardinality(FirstResponseRequests)
    /\ \A i \in DOMAIN invocations : invocations[i].request \in FirstResponseRequests
    /\ \A i, j \in DOMAIN invocations :
         invocations[i].request = invocations[j].request => i = j

\* two tool requests, each invoked, each follow-up rejected and followed by
\* the follow-up after the error: five model calls, two invocations
C35_Witness ==
  /\ qpc = "returned"
  /\ Cardinality(FirstResponseRequests) = 2
  /\ modelCalls = 5
  /\ Len(invocations) = 2

(***************************************************************************)
(* C36. In the Anthropic variant the conversation sent with every model    *)
(* call holds user-role turns only: the query, then the result and error   *)
(* turns appended so far for this query's tool requests, in order; no      *)
(* assistant turn is ever in it.                                           *)
(***************************************************************************)
C36_AnthropicConversationUserOnly ==
  /\ \A t \in DOMAIN turnLog : turnLog[t].at = t + 1
  /\ \A c \in DOMAIN modelLog :
       LET sent == modelLog[c].messages
       IN  /\ Len(sent) >= 1
           /\ Len(sent) <= Len(messages)
           /\ sent[1] = [role |-> "user", content |-> StringContent(Query)]
           /\ \A p \in DOMAIN sent :
                /\ sent[p] = messages[p]
                /\ sent[p].role = "user"
           /\ Len(sent) - 1 <= Len(turnLog)

\* a model call was sent the query, a result turn and an error turn
C36_Witness ==
  /\ \E c \in DOMAIN modelLog : Len(modelLog[c].messages) = 3
  /\ Len(turnLog) >= 2
  /\ turnLog[1].kind = "result"
  /\ turnLog[2].kind = "error"

\* the catalog entries a server produced
ProducedBy(sid) == {k \in DOMAIN produced : produced[k].serverId = sid}

(***************************************************************************)
(* C37. Every listTools failure, whatever its message, takes one attempt   *)
(* of the budget of five and is followed by a backoff wait before the next *)
(* attempt; once attempt k <= 5 has succeeded no further listTools call is *)
(* made for the server, its tools are registered once, and k - 1 waits     *)
(* have occurred.                                                          *)
(***************************************************************************)
C37_RetryUntilFirstSuccess ==
  /\ [](\A sid \in ServerIds :
          /\ listCalls[sid] <= maxRetries
          /\ (serverState[sid] = "Initializing" /\ pc = "listing")
               => Len(waits[sid]) = listCalls[sid] - 1
          /\ (serverState[sid] = "Initializing" /\ pc = "backoff")
               => Len(waits[sid]) = listCalls[sid]
          /\ serverState[sid] = "Ready"
               => /\ listCalls[sid] >= 1
                  /\ Len(waits[sid]) = listCalls[sid] - 1
                  /\ startedEmpty =>
                       \A i, j \in ProducedBy(sid) : produced[i] = produced[j] => i = j)
  /\ [][\A sid \in ServerIds :
          (serverState[sid] = "Ready" /\ serverState'[sid] = "Ready")
            => /\ listCalls'[sid] = listCalls[sid]
               /\ waits'[sid] = waits[sid]
               /\ Cardinality(ProducedBy(sid)') <= Cardinality(ProducedBy(sid))]_vars

\* the first server answered on its fifth attempt, after four waits, and the
\* call went on to the second
C37_Witness ==
  /\ idx = 2
  /\ pc = "connecting"
  /\ serverState[Servers[1].id] = "Ready"
  /\ listCalls[Servers[1].id] = 5
  /\ Len(waits[Servers[1].id]) = 4
  /\ ProducedBy(Servers[1].id) # {}

(***************************************************************************)
(* C38. With connectToServers run once, closeConnections calls close()     *)
(* exactly once on the transport of every server whose connect succeeded,  *)
(* the servers whose catalog retries were exhausted included, and never on *)
(* the transport of a server whose connect failed or was never attempted.  *)
(***************************************************************************)
\* the close() calls of the current closeConnections call on a transport of sid
ClosesOf(sid) == {k \in 1..Len(closeLog) : closeLog[k].transport.serverId = sid}

\* closeConnections is running after the one connectToServers call so far
ClosingAfterOneConnect ==
  /\ pc \in {"closing", "closeDelay"}
  /\ ConnectCalls = 1
  /\ LastCall.op = "connect"

C38_EveryOpenedTransportClosedOnce ==
  ClosingAfterOneConnect =>
    \A sid \in ServerIds :
      /\ Cardinality(ClosesOf(sid)) <= 1
      /\ \A k \in ClosesOf(sid) : closeLog[k].transport = [serverId |-> sid, call |-> Len(calls)]
      /\ serverState[sid] \in {"Unconnected", "ConnectFailed"} => ClosesOf(sid) = {}
      /\ pc = "closeDelay" =>
           /\ serverState[sid] \in {"Ready", "Exhausted"} => Cardinality(ClosesOf(sid)) = 1
           /\ serverState[sid] \in {"Unconnected", "ConnectFailed", "Ready", "Exhausted"}

\* the close loop has ended after a connect in which one server failed to
\* connect and another was dropped after its fifth listTools failure
C38_Witness ==
  /\ pc = "closeDelay"
  /\ ClosingAfterOneConnect
  /\ \E s1, s2 \in ServerIds :
       /\ serverState[s1] = "ConnectFailed"
       /\ serverState[s2] = "Exhausted"
       /\ ClosesOf(s1) = {}
       /\ Cardinality(ClosesOf(s2)) = 1

====
